---- MODULE Spec2Model ----
(***************************************************************************)
(* LTE Band 41 RCA: the analysis engine. Five specifications share this    *)
(* module: Spec and SpecRules (Threshold Classifier), SpecDrift (Drift     *)
(* Comparator and Baseline store), SpecLock (concurrent comparisons and    *)
(* refreshes) and SpecIngest (Counter Normalizer and Series Aggregator).   *)
(*                                                                         *)
(* The classifier takes the per-KPI statistics of one analysis run,        *)
(* evaluates every KPI of the fixed threshold table, builds the Anomaly    *)
(* list, derives six evidence flags by KPI family and selects one root     *)
(* cause label by a precedence-ordered rule list.                          *)
(*                                                                         *)
(* Numbers: KPI means and bounds are fixed-point values in tenths of the   *)
(* KPI's unit (95% is 950, 5 dB is 50, 1% is 10), so that a deviation of   *)
(* exactly 20% of every bound of the table is an integer.                  *)
(***************************************************************************)
EXTENDS Integers, Sequences, FiniteSets, TLC

VARIABLES
    pc,          \* position of the run: "collect", "done", "failed" (Spec); "flags", "labelled" (SpecRules)
    evidence,    \* RCAResults.evidence: KPI name -> mean, for the KPIs that have statistics
    anomalies,   \* RCAResults.anomalies: ordered list of Anomaly records
    flags,       \* the evidence flags of the decision procedure
    root_cause,  \* RCAResults.root_cause
    severity     \* RCAResults.severity

\* The Drift Comparator and the analysis run around it.
VARIABLES
    store,       \* the Baseline store: site -> stored Baseline, NoBaseline or Corrupt
    lastOp,      \* the operation that ran last: kind, site and the run's aggregates
    response     \* what that operation returned: status, result parts, DriftResult

\* Concurrent comparisons and refreshes on the Baseline store.
VARIABLES
    entries,     \* site -> KPI -> version of the refresh that wrote the KPI's Baseline entry
    holder,      \* site -> the worker that holds the site's lock, or Free
    work         \* worker -> its operation: pc, kind, site, pending KPIs, entries seen

\* The Counter Normalizer and the Series Aggregator.
VARIABLES
    document,    \* the uploaded document
    ingest       \* the outcome of the run on it: status, samples, statistics, result

\* The Outlier Detector.
VARIABLES
    matrix,      \* the run's time buckets and the model's score of each feature vector
    outlier      \* the OutlierResult of the run

\* The frontend: the browser session and the state of each page component.
VARIABLES
    sessionStorage,  \* window.sessionStorage: key -> stored item
    route,           \* the page the router shows
    network,         \* the requests in flight and the log of requests sent
    uploadPage,      \* UploadPage: file, uploading, analyzing, error, success
    askPage,         \* AskAIPage: question, loading, answer, confidence, error, hasData
    rcaPage,         \* RCAPage: rcaResults, loading, reportLoading, reportError
    dashboardPage    \* DashboardPage: rcaResults, kpiData, loading

rcaVars == <<pc, evidence, anomalies, flags, root_cause, severity>>
driftVars == <<store, lastOp, response>>
lockVars == <<entries, holder, work>>
ingestVars == <<document, ingest>>
outlierVars == <<matrix, outlier>>
frontVars == <<sessionStorage, route, network, uploadPage, askPage, rcaPage, dashboardPage>>

vars == <<rcaVars, driftVars, lockVars, ingestVars, outlierVars, frontVars>>

\* ------------------------------------------------------------------ bounds
\* Most KPIs that carry statistics in one run.
MaxKpis == 3

\* ------------------------------------------------------- static configuration
\* Help page: "KPI values are significantly outside thresholds (>20% deviation)".
SeverityCutoffPct == 20

\* The threshold table of the help page. bound is in tenths of the unit;
\* comparison is "min" for "Minimum: b" and "max" for "Maximum: b".
KPI_THRESHOLDS ==
    << [name |-> "RRC_Setup_Success_Rate",  comparison |-> "min", bound |-> 950],
       [name |-> "ERAB_Setup_Success_Rate", comparison |-> "min", bound |-> 980],
       [name |-> "PRB_Utilization_Avg",     comparison |-> "max", bound |-> 700],
       [name |-> "PRB_Utilization_P95",     comparison |-> "max", bound |-> 850],
       [name |-> "SINR_Avg",                comparison |-> "min", bound |-> 50],
       [name |-> "SINR_P10",                comparison |-> "min", bound |-> 0],
       [name |-> "BLER_P95",                comparison |-> "max", bound |-> 100],
       [name |-> "Paging_Success_Rate",     comparison |-> "min", bound |-> 950],
       [name |-> "S1_Setup_Failure_Rate",   comparison |-> "max", bound |-> 10],
       [name |-> "Cell_Availability",       comparison |-> "min", bound |-> 990] >>

ThresholdNames == {KPI_THRESHOLDS[i].name : i \in 1..Len(KPI_THRESHOLDS)}

\* KPIs without a threshold: one canonical KPI of ADDITIONAL_KPIS and one vendor
\* counter that the mapping table does not know (kept under its raw name).
ADDITIONAL_KPIS == {"Handover_Success_Rate", "pmUnmappedCounter"}

KpiNames == ThresholdNames \cup ADDITIONAL_KPIS

\* The README's list of root causes, and the label of a run that matches none.
RootCauseLabels ==
    { "Transport/TIMING Fault", "Microwave ACM Fade", "TDD Frame Misalignment",
      "RF Interference / Sector Overshoot", "Congestion", "RF Quality Degradation",
      "Parameter Mismatch", "New-Site Integration Issue", "CPE-Specific Issue",
      "No significant anomaly detected" }

\* severityConfig of the RCA page: the three severities.
Severities == {"low", "medium", "high"}

NoLabel == "(none)"
NoSeverity == "(none)"

FlagNames == {"s1_fail", "rrc_or_erab_fail", "prb_fail", "sinr_fail", "bler_fail", "paging_fail"}

FlagAssignments == [FlagNames -> BOOLEAN]

NoFlags == [n \in FlagNames |-> FALSE]

\* KPI family of each evidence flag ("Key KPIs" of the help page).
KpiFamily ==
    [n \in FlagNames |->
        CASE n = "s1_fail"          -> {"S1_Setup_Failure_Rate"}
          [] n = "rrc_or_erab_fail" -> {"RRC_Setup_Success_Rate", "ERAB_Setup_Success_Rate"}
          [] n = "prb_fail"         -> {"PRB_Utilization_Avg", "PRB_Utilization_P95"}
          [] n = "sinr_fail"        -> {"SINR_Avg", "SINR_P10"}
          [] n = "bler_fail"        -> {"BLER_P95"}
          [] n = "paging_fail"      -> {"Paging_Success_Rate"}]

\* ------------------------------------------------------------- arithmetic
Abs(x) == IF x < 0 THEN 0 - x ELSE x


\* --------------------------------------------------- threshold evaluation
\* Faulty variant: the comparison includes the bound itself.
FailsBoundInclusive(t, mean) ==
    IF t.comparison = "min" THEN mean <= t.bound ELSE mean >= t.bound

\* A mean fails a "min" bound when it is below it and a "max" bound when it is above it.
FailsBound(t, mean) ==
    IF t.comparison = "min" THEN mean < t.bound ELSE mean > t.bound

ViolationType(t) ==
    IF t.comparison = "min" THEN "below_threshold" ELSE "above_threshold"

\* Faulty variant: the cutoff is not strict.
RelativeDeviationAtLeast(mean, bound) ==
    100 * Abs(mean - bound) >= SeverityCutoffPct * Abs(bound)

\* |mean - bound| / bound > 0.20, for a bound that is not 0.
RelativeDeviationExceeds(mean, bound) ==
    100 * Abs(mean - bound) > SeverityCutoffPct * Abs(bound)

\* Severity of one Anomaly. With bound = 0 the quotient |mean - bound| / bound has a
\* zero divisor: the run either raises (action AnalyzeRaises) or the quotient is
\* +infinity, which exceeds the cutoff (this operator).
AnomalySeverity(mean, bound) ==
    IF bound = 0 THEN "high"
    ELSE IF RelativeDeviationExceeds(mean, bound) THEN "high" ELSE "medium"

\* The Anomaly record of the RCA page's RCAResults.anomalies.
MkAnomaly(t, mean) ==
    [kpi |-> t.name, type |-> ViolationType(t), value |-> mean,
     threshold |-> t.bound, severity |-> AnomalySeverity(mean, t.bound)]

Violates(t, ev) == t.name \in DOMAIN ev /\ FailsBound(t, ev[t.name])

RECURSIVE EvaluateFrom(_, _)
EvaluateFrom(ev, i) ==
    IF i > Len(KPI_THRESHOLDS) THEN << >>
    ELSE (IF Violates(KPI_THRESHOLDS[i], ev)
            THEN << MkAnomaly(KPI_THRESHOLDS[i], ev[KPI_THRESHOLDS[i].name]) >>
            ELSE << >>) \o EvaluateFrom(ev, i + 1)

\* The Anomaly list of a statistics table, in the order of the threshold table.
EvaluateThresholds(ev) == EvaluateFrom(ev, 1)

\* Some violated KPI has bound 0: its relative deviation divides by zero.
ZeroDivisor(ev) ==
    \E i \in 1..Len(KPI_THRESHOLDS) :
        Violates(KPI_THRESHOLDS[i], ev) /\ KPI_THRESHOLDS[i].bound = 0

\* ------------------------------------------------------------ evidence flags
AnomalousKpis(an) == {an[i].kpi : i \in 1..Len(an)}

DeriveFlags(an) == [n \in FlagNames |-> AnomalousKpis(an) \cap KpiFamily[n] # {}]

\* ---------------------------------------------------------- decision rules
\* Faulty variants of the rule conditions: rule 1 made exclusive of rule 2, rule 3
\* reading the wrong flag, rule 4 with its negation lost.
Rule1Exclusive(f) == f.s1_fail /\ f.rrc_or_erab_fail /\ ~f.prb_fail
Rule3WrongFlag(f) == f.sinr_fail /\ f.bler_fail /\ f.paging_fail
Rule4Inverted(f) == f.sinr_fail /\ f.bler_fail /\ f.prb_fail

\* The conditions of the help page's cards ("Detected when"), in precedence order;
\* "RRC anomalies" of the Congestion and New-Site cards is the rrc_or_erab_fail flag.
Rule1(f) == f.s1_fail /\ f.rrc_or_erab_fail
Rule2(f) == f.s1_fail /\ f.prb_fail
Rule3(f) == f.sinr_fail /\ f.bler_fail /\ f.prb_fail
Rule4(f) == f.sinr_fail /\ f.bler_fail /\ ~f.prb_fail
Rule5(f) == f.prb_fail /\ f.rrc_or_erab_fail /\ ~f.sinr_fail
Rule6(f) == f.sinr_fail /\ f.bler_fail
Rule7(f) == f.rrc_or_erab_fail /\ ~f.s1_fail /\ ~f.prb_fail
Rule8(f) == f.paging_fail /\ f.rrc_or_erab_fail
Rule9(f) == f.bler_fail /\ ~f.sinr_fail


Matches(r, f) ==
    CASE r = 1 -> Rule1(f)
      [] r = 2 -> Rule2(f)
      [] r = 3 -> Rule3(f)
      [] r = 4 -> Rule4(f)
      [] r = 5 -> Rule5(f)
      [] r = 6 -> Rule6(f)
      [] r = 7 -> Rule7(f)
      [] r = 8 -> Rule8(f)
      [] r = 9 -> Rule9(f)
      [] OTHER -> TRUE

\* Faulty variant: a run that matches no rule is labelled "Unknown".
RuleLabelUnknown ==
    << "Transport/TIMING Fault", "Microwave ACM Fade",
       "RF Interference / Sector Overshoot", "TDD Frame Misalignment",
       "Congestion", "RF Quality Degradation", "Parameter Mismatch",
       "New-Site Integration Issue", "CPE-Specific Issue", "Unknown" >>

RuleLabel ==
    << "Transport/TIMING Fault", "Microwave ACM Fade",
       "RF Interference / Sector Overshoot", "TDD Frame Misalignment",
       "Congestion", "RF Quality Degradation", "Parameter Mismatch",
       "New-Site Integration Issue", "CPE-Specific Issue",
       "No significant anomaly detected" >>

NumRules == Len(RuleLabel)

\* The flags a rule requires to be set: the KPI families the rule names.
RuleFamilies ==
    << {"s1_fail", "rrc_or_erab_fail"}, {"s1_fail", "prb_fail"},
       {"sinr_fail", "bler_fail", "prb_fail"}, {"sinr_fail", "bler_fail"},
       {"prb_fail", "rrc_or_erab_fail"}, {"sinr_fail", "bler_fail"},
       {"rrc_or_erab_fail"}, {"paging_fail", "rrc_or_erab_fail"},
       {"bler_fail"}, {} >>

RECURSIVE FirstMatch(_, _, _)
FirstMatch(order, i, f) ==
    IF i >= Len(order) THEN order[Len(order)]
    ELSE IF Matches(order[i], f) THEN order[i]
    ELSE FirstMatch(order, i + 1, f)

\* Rules are tried in rule-index order; the first that matches wins, rule 10 always matches.
MatchedRule(f) == FirstMatch(<<1, 2, 3, 4, 5, 6, 7, 8, 9, 10>>, 1, f)

Classify(f) == RuleLabel[MatchedRule(f)]

\* ---------------------------------------------------------- overall severity
SeverityRank(s) == IF s = "high" THEN 2 ELSE IF s = "medium" THEN 1 ELSE 0

Contributing(r, an) ==
    {i \in 1..Len(an) : \E n \in RuleFamilies[r] : an[i].kpi \in KpiFamily[n]}

\* Faulty variant: the maximum is taken over every Anomaly of the run.
OverallSeverityOfAll(r, an) ==
    IF r = Len(RuleFamilies) THEN "low"
    ELSE IF \E i \in 1..Len(an) : an[i].severity = "high" THEN "high"
    ELSE "medium"

\* Maximum severity among the Anomalies of the matched rule's KPI families; low for rule 10.
OverallSeverity(r, an) ==
    IF \E i \in Contributing(r, an) : an[i].severity = "high" THEN "high"
    ELSE IF \E i \in Contributing(r, an) : an[i].severity = "medium" THEN "medium"
    ELSE "low"


\* ------------------------------------------------------------------ inputs
\* 20% of a bound, in tenths.
CutoffDeviation(bound) == (SeverityCutoffPct * bound) \div 100

\* Means tried for a KPI of the table: at the bound, a tenth beyond it, beyond it
\* by exactly 20% of the bound, and a tenth more than that.
BoundaryMeans(t) ==
    LET dir == IF t.comparison = "min" THEN 0 - 1 ELSE 1
        d   == CutoffDeviation(t.bound)
    IN  {t.bound, t.bound + dir, t.bound + dir * d, t.bound + dir * (d + 1)}

\* Means tried for a KPI: a KPI without a threshold gets a mean that would fail
\* every "min" bound of the table.
MeanChoices(k) ==
    IF k \in ThresholdNames
      THEN UNION {BoundaryMeans(KPI_THRESHOLDS[i]) :
                    i \in {j \in 1..Len(KPI_THRESHOLDS) : KPI_THRESHOLDS[j].name = k}}
      ELSE {0 - 10}

NoEvidence == [k \in {} |-> 0]

\* ------------------------------------------------------------ drift: data
\* A stored Baseline record, the two other conditions of a site's entry, and the
\* values of lastOp and response before any operation has run.
NoBaseline == [state |-> "none"]
Corrupt == [state |-> "corrupt"]
Stored(site, stats) == [state |-> "stored", site_id |-> site, stats |-> stats]
NoResponse == [status |-> "(none)"]
NoOp == [kind |-> "(none)"]

\* Nothing has been stored and no operation has run.
DriftIdle ==
    /\ store = [s \in {} |-> NoBaseline]
    /\ lastOp = NoOp
    /\ response = NoResponse

\* No worker has started and no lock is held; no document has been uploaded.
Free == "(free)"
NoWork == [pc |-> "idle"]
NoDocument == [schema |-> "(none)"]
NoIngest == [status |-> "(none)"]

LockIdle ==
    /\ entries = [s \in {} |-> 0]
    /\ holder = [s \in {} |-> Free]
    /\ work = [w \in {} |-> NoWork]

IngestIdle ==
    /\ document = NoDocument
    /\ ingest = NoIngest

\* No run has been scored.
NoMatrix == [buckets |-> << >>]
NoOutlier == [status |-> "(none)"]

OutlierIdle ==
    /\ matrix = NoMatrix
    /\ outlier = NoOutlier

\* ------------------------------------------------------------ frontend: data
\* JSON values as the pages see them after JSON.parse, and React's null.
JNull == [t |-> "null"]
JArray(items) == [t |-> "array", items |-> items]
JResult(id, kpi_data) == [t |-> "object", id |-> id, kpi_data |-> kpi_data]

\* Strings that are null in the component state.
Null == "(null)"

\* An item of sessionStorage: absent (getItem gives null), or a string that
\* JSON.parse either rejects or turns into a value.
Absent == [kind |-> "absent"]
Unparsable == [kind |-> "unparsable"]
Json(v) == [kind |-> "json", value |-> v]

StorageKeys == {"rcaResults", "kpiData"}
EmptyStorage == [k \in StorageKeys |-> Absent]

\* The state of each page component when it mounts (its useState initial values).
UploadInitial ==
    [file |-> JNull, uploading |-> FALSE, analyzing |-> FALSE, error |-> Null, success |-> FALSE]

AskInitial ==
    [question |-> << >>, loading |-> FALSE, answer |-> Null, confidence |-> Null,
     error |-> Null, hasData |-> FALSE]

RcaPageInitial ==
    [rcaResults |-> JNull, loading |-> TRUE, reportLoading |-> FALSE, reportError |-> Null]

DashboardInitial == [rcaResults |-> JNull, kpiData |-> JArray(<< >>), loading |-> TRUE]

NoRequests == [pending |-> {}, started |-> 0, uploaded |-> {}]

\* The application has not been opened.
FrontIdle ==
    /\ sessionStorage = EmptyStorage
    /\ route = [page |-> "(closed)", push |-> Null]
    /\ network = NoRequests
    /\ uploadPage = UploadInitial
    /\ askPage = AskInitial
    /\ rcaPage = RcaPageInitial
    /\ dashboardPage = DashboardInitial

\* ----------------------------------------------------------------- actions
\* The Series Aggregator adds the statistics of one more KPI to the run's table.
Aggregate(k, mean) ==
    /\ pc = "collect"
    /\ k \notin DOMAIN evidence
    /\ Cardinality(DOMAIN evidence) < MaxKpis
    /\ evidence' = (k :> mean) @@ evidence
    /\ UNCHANGED <<pc, anomalies, flags, root_cause, severity>>
    /\ UNCHANGED <<driftVars, lockVars, ingestVars, outlierVars, frontVars>>

\* One run of the Threshold Classifier over the statistics table: Anomaly list,
\* evidence flags, root cause label and overall severity.
Analyze ==
    /\ pc = "collect"
    /\ LET an == EvaluateThresholds(evidence)
           f  == DeriveFlags(an)
       IN  /\ anomalies' = an
           /\ flags' = f
           /\ root_cause' = Classify(f)
           /\ severity' = OverallSeverity(MatchedRule(f), an)
    /\ pc' = "done"
    /\ UNCHANGED evidence
    /\ UNCHANGED <<driftVars, lockVars, ingestVars, outlierVars, frontVars>>

\* The same run when the severity quotient of a violated KPI divides by a bound
\* of 0 and the division raises: the run fails and produces no result.
AnalyzeRaises ==
    /\ pc = "collect"
    /\ ZeroDivisor(evidence)
    /\ pc' = "failed"
    /\ UNCHANGED <<evidence, anomalies, flags, root_cause, severity>>
    /\ UNCHANGED <<driftVars, lockVars, ingestVars, outlierVars, frontVars>>

\* The next analysis run starts from nothing: runs share no state.
NewRun ==
    /\ pc \in {"done", "failed"}
    /\ pc' = "collect"
    /\ evidence' = NoEvidence
    /\ anomalies' = << >>
    /\ flags' = NoFlags
    /\ root_cause' = NoLabel
    /\ severity' = NoSeverity
    /\ UNCHANGED <<driftVars, lockVars, ingestVars, outlierVars, frontVars>>

Init ==
    /\ pc = "collect"
    /\ evidence = NoEvidence
    /\ anomalies = << >>
    /\ flags = NoFlags
    /\ root_cause = NoLabel
    /\ severity = NoSeverity
    /\ DriftIdle
    /\ LockIdle
    /\ IngestIdle
    /\ OutlierIdle
    /\ FrontIdle

Next ==
    \/ \E k \in KpiNames : \E mean \in MeanChoices(k) : Aggregate(k, mean)
    \/ Analyze
    \/ AnalyzeRaises
    \/ NewRun

Spec == Init /\ [][Next]_vars

\* ------------------------------------- the decision procedure on its own
\* The root-cause decision procedure applied to every assignment of the flags.
ClassifyFlags ==
    /\ pc = "flags"
    /\ root_cause' = Classify(flags)
    /\ pc' = "labelled"
    /\ UNCHANGED <<evidence, anomalies, flags, severity>>
    /\ UNCHANGED <<driftVars, lockVars, ingestVars, outlierVars, frontVars>>

InitRules ==
    /\ pc = "flags"
    /\ flags \in FlagAssignments
    /\ evidence = NoEvidence
    /\ anomalies = << >>
    /\ root_cause = NoLabel
    /\ severity = NoSeverity
    /\ DriftIdle
    /\ LockIdle
    /\ IngestIdle
    /\ OutlierIdle
    /\ FrontIdle

NextRules == ClassifyFlags

SpecRules == InitRules /\ [][NextRules]_vars


\* ======================================================= Drift Comparator
Sites == {"site-A", "site-B"}

\* The KPIs of a run's statistics table in the drift model: one KPI of the
\* threshold table and one vendor counter kept under its raw name.
DriftKpis == {"S1_Setup_Failure_Rate", "pmUnmappedCounter"}

HasStdev(st) == "stdev" \in DOMAIN st

\* KPIStatistics as the Drift Comparator reads them: mean, and stdev when the KPI
\* had more than one sample (the field is absent otherwise). Tenths of the unit;
\* means are not negative.
StatChoices ==
    { [mean |-> 0],
      [mean |-> 100],
      [mean |-> 100, stdev |-> 20],
      [mean |-> 106, stdev |-> 20],
      [mean |-> 130, stdev |-> 0] }

\* The statistics the raw counter takes in the drift model.
RawCounterChoices == {st \in StatChoices : HasStdev(st) /\ st.mean # 106}

\* The per-KPI aggregates of one run.
Aggregates ==
    {t \in [DriftKpis -> StatChoices] : t["pmUnmappedCounter"] \in RawCounterChoices}

\* epsilon of max(baseline.stdev, epsilon): the smallest positive value, a tenth.
Epsilon == 1

\* The per-KPI significance cutoff of a normalized deviation, in thousandths.
SignificanceCutoff == 300

\* A drift score of 1.0, in thousandths.
ScoreOne == 1000

Max2(a, b) == IF a >= b THEN a ELSE b
Min2(a, b) == IF a <= b THEN a ELSE b

\* The divisor of a KPI's normalized deviation: max(baseline.stdev, epsilon), or
\* baseline.mean when the baseline has no stdev.
Divisor(base) == IF HasStdev(base) THEN Max2(base.stdev, Epsilon) ELSE base.mean

\* |current.mean - baseline.mean| / divisor in thousandths; with a zero divisor the
\* quotient is not a number (0 / 0) or infinite (x / 0), unless the division raises.
Deviation(cur, base) ==
    LET num == Abs(cur.mean - base.mean)
        den == Divisor(base)
    IN  IF den # 0 THEN [kind |-> "num", val |-> (ScoreOne * num) \div den]
        ELSE IF num = 0 THEN [kind |-> "nan", val |-> 0]
        ELSE [kind |-> "inf", val |-> 0]

Deviations(cur, base) == [k \in DOMAIN cur \cap DOMAIN base |-> Deviation(cur[k], base[k])]

DriftZeroDivisor(cur, base) ==
    \E k \in DOMAIN cur \cap DOMAIN base : Divisor(base[k]) = 0

RECURSIVE SumVals(_, _)
SumVals(dev, ks) ==
    IF ks = {} THEN 0
    ELSE LET k == CHOOSE x \in ks : TRUE
         IN  dev[k].val + SumVals(dev, ks \ {k})

\* The average of the deviations across KPIs.
Average(dev) ==
    IF \E k \in DOMAIN dev : dev[k].kind = "nan" THEN [kind |-> "nan", val |-> 0]
    ELSE IF \E k \in DOMAIN dev : dev[k].kind = "inf" THEN [kind |-> "inf", val |-> 0]
    ELSE [kind |-> "num", val |-> SumVals(dev, DOMAIN dev) \div Cardinality(DOMAIN dev)]

\* A score that is not a number: it lies outside every range.
NaNScore == 0 - 1

\* Clamping to [0,1]. Clamping a value that is not a number gives nanAs: 1.0 or
\* 0.0 with min/max built on comparisons (every comparison with it is false),
\* not-a-number with a clip that propagates it.
Clamp(avg, nanAs) ==
    IF avg.kind = "nan" THEN nanAs
    ELSE IF avg.kind = "inf" THEN ScoreOne
    ELSE Max2(0, Min2(ScoreOne, avg.val))

NaNClamps == {0, ScoreOne, NaNScore}

\* A deviation exceeds the cutoff (a comparison with not-a-number is false).
Significant(d) == d.kind = "inf" \/ (d.kind = "num" /\ d.val > SignificanceCutoff)

ParametersOfInterest(dev) == {k \in DOMAIN dev : Significant(dev[k])}

\* The DriftResult of comparing a run's aggregates with a Baseline.
CompareDrift(cur, base, nanAs) ==
    LET dev == Deviations(cur, base)
    IN  [drift_score |-> Clamp(Average(dev), nanAs),
         parameters_of_interest |-> ParametersOfInterest(dev),
         drift_details |-> dev]

\* Faulty variant: the first run reports full drift.
FirstRunDriftFull ==
    [drift_score |-> ScoreOne, parameters_of_interest |-> {},
     drift_details |-> [k \in {} |-> 0]]

\* The DriftResult of the first run of a site.
FirstRunDrift ==
    [drift_score |-> 0, parameters_of_interest |-> {}, drift_details |-> [k \in {} |-> 0]]

\* The parts of the combined result other than drift.
CoreParts == {"root_cause", "anomaly_detection", "kpi_data"}

\* Faulty variant: a Baseline that does not deserialize fails the whole run.
CorruptResponseFails == [status |-> "failed", parts |-> {}]

\* BaselineCorruptError: the rest of the result is returned, without a drift part.
CorruptResponse == [status |-> "ok", parts |-> CoreParts]

\* Faulty variant: every run with a readable store entry writes the Baseline.
StoreAfterRunOverwrites(s, cur) ==
    IF store[s] = Corrupt THEN store ELSE [store EXCEPT ![s] = Stored(s, cur)]

\* The store after an analysis run: written only when the site had no Baseline.
StoreAfterRun(s, cur) ==
    IF store[s] = NoBaseline THEN [store EXCEPT ![s] = Stored(s, cur)] ELSE store

\* What an analysis run returns.
RunResponse(s, cur, nanAs) ==
    IF store[s] = NoBaseline
      THEN [status |-> "ok", parts |-> CoreParts \cup {"drift"}, drift |-> FirstRunDrift]
    ELSE IF store[s] = Corrupt
      THEN CorruptResponse
    ELSE [status |-> "ok", parts |-> CoreParts \cup {"drift"},
          drift |-> CompareDrift(cur, store[s].stats, nanAs)]

\* One analysis run for a site: the Drift Comparator creates the Baseline when the
\* site has none, reports drift as unavailable when the stored one does not
\* deserialize, and compares otherwise.
AnalysisRun(s, cur, nanAs) ==
    /\ lastOp' = [kind |-> "run", site |-> s, data |-> cur]
    /\ store' = StoreAfterRun(s, cur)
    /\ response' = RunResponse(s, cur, nanAs)
    /\ UNCHANGED <<rcaVars, lockVars, ingestVars, outlierVars, frontVars>>

\* The same run when a KPI's divisor is 0 and the division raises: the run fails.
AnalysisRunRaises(s, cur) ==
    /\ store[s].state = "stored"
    /\ DriftZeroDivisor(cur, store[s].stats)
    /\ lastOp' = [kind |-> "run", site |-> s, data |-> cur]
    /\ response' = [status |-> "failed", parts |-> {}]
    /\ UNCHANGED store
    /\ UNCHANGED <<rcaVars, lockVars, ingestVars, outlierVars, frontVars>>

\* The explicit "establish/refresh baseline" operation.
RefreshBaseline(s, cur) ==
    /\ store' = [store EXCEPT ![s] = Stored(s, cur)]
    /\ lastOp' = [kind |-> "refresh", site |-> s, data |-> cur]
    /\ response' = [status |-> "ok", parts |-> {}]
    /\ UNCHANGED <<rcaVars, lockVars, ingestVars, outlierVars, frontVars>>

RcaIdle ==
    /\ pc = "idle"
    /\ evidence = NoEvidence
    /\ anomalies = << >>
    /\ flags = NoFlags
    /\ root_cause = NoLabel
    /\ severity = NoSeverity

InitDrift ==
    /\ store \in [Sites -> {NoBaseline, Corrupt}]
    /\ lastOp = NoOp
    /\ response = NoResponse
    /\ RcaIdle
    /\ LockIdle
    /\ IngestIdle
    /\ OutlierIdle
    /\ FrontIdle

NextDrift ==
    \/ \E s \in Sites : \E cur \in Aggregates : \E nanAs \in NaNClamps : AnalysisRun(s, cur, nanAs)
    \/ \E s \in Sites : \E cur \in Aggregates : AnalysisRunRaises(s, cur)
    \/ \E s \in Sites : \E cur \in Aggregates : RefreshBaseline(s, cur)

SpecDrift == InitDrift /\ [][NextDrift]_vars

\* ================================================= Baseline store locking
Workers == {"w1", "w2"}

\* Refreshes are numbered; entry version 0 is the Baseline at its creation.
MaxVersion == 2

Max(S) == CHOOSE x \in S : \A y \in S : y <= x

\* Faulty variant: the lock is not consulted.
LockIgnored(s) == TRUE

\* The site's lock can be taken.
LockFree(s) == holder[s] = Free

CanStart(w) == work[w].pc \in {"idle", "done"}

\* A worker starts a comparison for a site: it takes the site's lock.
BeginCompare(w, s) ==
    /\ CanStart(w)
    /\ LockFree(s)
    /\ holder' = [holder EXCEPT ![s] = w]
    /\ work' = [work EXCEPT ![w] =
                  [pc |-> "working", kind |-> "compare", site |-> s,
                   pending |-> DriftKpis, seen |-> [k \in {} |-> 0]]]
    /\ UNCHANGED entries
    /\ UNCHANGED <<rcaVars, driftVars, ingestVars, outlierVars, frontVars>>

\* A worker starts a refresh for a site: it takes the site's lock and numbers the
\* Baseline it is going to write.
BeginRefresh(w, s) ==
    /\ CanStart(w)
    /\ LockFree(s)
    /\ Max({entries[s][k] : k \in DriftKpis}) < MaxVersion
    /\ holder' = [holder EXCEPT ![s] = w]
    /\ work' = [work EXCEPT ![w] =
                  [pc |-> "working", kind |-> "refresh", site |-> s,
                   pending |-> DriftKpis,
                   version |-> Max({entries[s][k] : k \in DriftKpis}) + 1]]
    /\ UNCHANGED entries
    /\ UNCHANGED <<rcaVars, driftVars, ingestVars, outlierVars, frontVars>>

\* A comparison reads one KPI's entry of the stored Baseline.
ReadEntry(w, k) ==
    /\ work[w].pc = "working"
    /\ work[w].kind = "compare"
    /\ k \in work[w].pending
    /\ work' = [work EXCEPT ![w].pending = @ \ {k},
                            ![w].seen = [x \in DOMAIN @ \cup {k} |->
                                           IF x = k THEN entries[work[w].site][k] ELSE @[x]]]
    /\ UNCHANGED <<entries, holder>>
    /\ UNCHANGED <<rcaVars, driftVars, ingestVars, outlierVars, frontVars>>

\* A refresh writes one KPI's entry of the stored Baseline.
WriteEntry(w, k) ==
    /\ work[w].pc = "working"
    /\ work[w].kind = "refresh"
    /\ k \in work[w].pending
    /\ entries' = [entries EXCEPT ![work[w].site][k] = work[w].version]
    /\ work' = [work EXCEPT ![w].pending = @ \ {k}]
    /\ UNCHANGED holder
    /\ UNCHANGED <<rcaVars, driftVars, ingestVars, outlierVars, frontVars>>

\* The operation has handled every KPI: it releases the site's lock.
Finish(w) ==
    /\ work[w].pc = "working"
    /\ work[w].pending = {}
    /\ holder' = [holder EXCEPT ![work[w].site] = Free]
    /\ work' = [work EXCEPT ![w].pc = "done"]
    /\ UNCHANGED entries
    /\ UNCHANGED <<rcaVars, driftVars, ingestVars, outlierVars, frontVars>>

InitLock ==
    /\ entries = [s \in Sites |-> [k \in DriftKpis |-> 0]]
    /\ holder = [s \in Sites |-> Free]
    /\ work = [w \in Workers |-> NoWork]
    /\ RcaIdle
    /\ DriftIdle
    /\ IngestIdle
    /\ OutlierIdle
    /\ FrontIdle

NextLock ==
    \/ \E w \in Workers : \E s \in Sites : BeginCompare(w, s)
    \/ \E w \in Workers : \E s \in Sites : BeginRefresh(w, s)
    \/ \E w \in Workers : \E k \in DriftKpis : ReadEntry(w, k)
    \/ \E w \in Workers : \E k \in DriftKpis : WriteEntry(w, k)
    \/ \E w \in Workers : Finish(w)

SpecLock == InitLock /\ [][NextLock]_vars

\* ==================================== Counter Normalizer, Series Aggregator
\* The document structures the parser recognises, and the schema of a document
\* that has none of their markers.
KnownSchemas == {"measCollecFile", "mdc", "pmContainer"}
DocSchemas == KnownSchemas \cup {"unknown"}

\* The static lookup table from vendor counter names to KPI names.
COUNTER_MAPPINGS ==
    ("pmRrcConnEstabAtt"  :> "RRC_Setup_Attempts") @@
    ("pmRrcConnEstabSucc" :> "RRC_Setup_Success") @@
    ("pmRrcConnEstab"     :> "RRC_Setup_Success_Rate") @@
    ("pmErabEstabAtt"     :> "ERAB_Setup_Attempts") @@
    ("pmErabEstabSucc"    :> "ERAB_Setup_Success") @@
    ("pmErabEstab"        :> "ERAB_Setup_Success_Rate") @@
    ("pmPrbUsedDlAvg"     :> "PRB_Utilization_Avg") @@
    ("pmPrbUsedDl"        :> "PRB_Utilization_Avg") @@
    ("pmSinrAvg"          :> "SINR_Avg") @@
    ("pmSinrP10"          :> "SINR_P10") @@
    ("pmSinrPusch"        :> "SINR_PUSCH") @@
    ("pmBlerP95"          :> "BLER_P95") @@
    ("pmBlerDl"           :> "BLER_DL") @@
    ("pmPagingSucc"       :> "Paging_Success_Rate") @@
    ("pmS1EstabFail"      :> "S1_Setup_Failure_Rate") @@
    ("pmCellAvail"        :> "Cell_Availability") @@
    ("pmPdcpVolDlDrb"     :> "Downlink_Throughput")

\* The canonical KPI names: those of the lookup table, of the threshold table and
\* of the KPI catalogue.
CanonicalKpiNames ==
    {COUNTER_MAPPINGS[c] : c \in DOMAIN COUNTER_MAPPINGS}
        \cup ThresholdNames \cup (ADDITIONAL_KPIS \ {"pmUnmappedCounter"})

\* A counter of the lookup table gets its KPI name; any other keeps its raw name.
CanonicalName(c) == IF c \in DOMAIN COUNTER_MAPPINGS THEN COUNTER_MAPPINGS[c] ELSE c

\* The attempt/success pairs from which a success rate is derived.
DerivedRates ==
    << [attempts |-> "RRC_Setup_Attempts", success |-> "RRC_Setup_Success",
        rate |-> "RRC_Setup_Success_Rate"],
       [attempts |-> "ERAB_Setup_Attempts", success |-> "ERAB_Setup_Success",
        rate |-> "ERAB_Setup_Success_Rate"] >>

\* The (site, timestamp) buckets of a document: one site, consecutive timestamps.
NumBuckets == 2
Buckets == 1..NumBuckets
DocSite == "site-A"

\* The counters a bucket of a document may carry, in document order, and the
\* values each may have (rates in tenths of a percent).
CounterOrder == <<"pmRrcConnEstabAtt", "pmRrcConnEstabSucc", "pmRrcConnEstab", "pmUnmappedCounter">>

CounterValues ==
    ("pmRrcConnEstabAtt"  :> {0, 10}) @@
    ("pmRrcConnEstabSucc" :> {0, 9}) @@
    ("pmRrcConnEstab"     :> {940}) @@
    ("pmUnmappedCounter"  :> {5})

Range(f) == {f[x] : x \in DOMAIN f}

\* The contents of one bucket: some of the counters, each with a value.
BucketContents ==
    UNION {{c \in [present -> UNION Range(CounterValues)] :
               \A n \in present : c[n] \in CounterValues[n]} :
           present \in SUBSET Range(CounterOrder)}

Documents == [schema : DocSchemas, buckets : [Buckets -> BucketContents]]

\* ------------------------------------------------- the three document structures
\* Every (counter, bucket) position, counter by counter.
AllPositions ==
    [k \in 1..(Len(CounterOrder) * NumBuckets) |->
        [counter |-> CounterOrder[((k - 1) \div NumBuckets) + 1],
         bucket |-> ((k - 1) % NumBuckets) + 1]]

\* The flat collection file: one list of measurements, each with its time and type.
CollecFileEntries(buckets) ==
    LET at == SelectSeq(AllPositions, LAMBDA e : e.counter \in DOMAIN buckets[e.bucket])
    IN  [i \in 1..Len(at) |->
            [measTime |-> at[i].bucket, measType |-> at[i].counter,
             value |-> buckets[at[i].bucket][at[i].counter]]]

\* The namespaced managed-data collection: per bucket, results under qualified names.
QualifiedName(c) == [ns |-> "pm", local |-> c]

MdcResults(contents) == {[mt |-> QualifiedName(c), r |-> contents[c]] : c \in DOMAIN contents}

\* The container structure: per bucket one container holding its counters.
Container(contents) == [counters |-> contents]

\* The element tree of a document, under the top-level marker of its schema.
Structure(doc) ==
    CASE doc.schema = "measCollecFile" ->
           [root |-> "measCollecFile", measData |-> CollecFileEntries(doc.buckets)]
      [] doc.schema = "mdc" ->
           [root |-> "mdc", md |-> [b \in Buckets |-> MdcResults(doc.buckets[b])]]
      [] doc.schema = "pmContainer" ->
           [root |-> "pmContainer", containers |-> [b \in Buckets |-> Container(doc.buckets[b])]]
      [] OTHER -> [root |-> doc.schema]

\* The counters of each bucket as read from a flat collection file.
FromCollecFile(tree) ==
    [b \in Buckets |->
        LET es == {tree.measData[i] : i \in {j \in 1..Len(tree.measData) :
                                                  tree.measData[j].measTime = b}}
        IN  [c \in {e.measType : e \in es} |-> (CHOOSE e \in es : e.measType = c).value]]

\* The same from a managed-data collection: the namespace is dropped.
FromMdc(tree) ==
    [b \in Buckets |->
        [c \in {e.mt.local : e \in tree.md[b]} |->
            (CHOOSE e \in tree.md[b] : e.mt.local = c).r]]

\* Faulty variant: only the first container is read.
FromFirstContainer(tree) ==
    [b \in Buckets |-> IF b = 1 THEN tree.containers[b].counters ELSE << >>]

\* The same from a container document.
FromContainers(tree) == [b \in Buckets |-> tree.containers[b].counters]

\* The Normalizer dispatches on the top-level marker.
Extract(tree) ==
    CASE tree.root = "measCollecFile" -> FromCollecFile(tree)
      [] tree.root = "mdc" -> FromMdc(tree)
      [] tree.root = "pmContainer" -> FromContainers(tree)
      [] OTHER -> [b \in Buckets |-> << >>]

\* The document as the Normalizer has read it.
Parsed(doc) == [schema |-> doc.schema, buckets |-> Extract(Structure(doc))]

\* ------------------------------------------------------------- normalizing
MkSample(b, name, v) == [timestamp |-> b, site_id |-> DocSite, kpi_name |-> name, value |-> v]

\* The Samples of the counters of a bucket, in document order.
RECURSIVE MappedFrom(_, _, _)
MappedFrom(b, contents, i) ==
    IF i > Len(CounterOrder) THEN << >>
    ELSE (IF CounterOrder[i] \in DOMAIN contents
            THEN << MkSample(b, CanonicalName(CounterOrder[i]), contents[CounterOrder[i]]) >>
            ELSE << >>) \o MappedFrom(b, contents, i + 1)

\* The value a bucket has for a KPI name.
KpiValue(contents, name) ==
    contents[CHOOSE c \in DOMAIN contents : CanonicalName(c) = name]

Present(contents, name) == \E c \in DOMAIN contents : CanonicalName(c) = name

\* Faulty variant: the rate is derived as soon as the attempt counter is there, a
\* missing success counter counting as 0.
HasAttempts(contents, r) == Present(contents, r.attempts)

\* Both halves of a pair are in the bucket.
HasPair(contents, r) == Present(contents, r.attempts) /\ Present(contents, r.success)

ValueOrZero(contents, name) == IF Present(contents, name) THEN KpiValue(contents, name) ELSE 0

\* The success rate of a pair in tenths of a percent; with 0 attempts the quotient
\* is not a finite number and the Sample is dropped, unless the division raises.
RECURSIVE DerivedFrom(_, _, _)
DerivedFrom(b, contents, i) ==
    IF i > Len(DerivedRates) THEN << >>
    ELSE LET r == DerivedRates[i]
         IN  (IF HasPair(contents, r) /\ KpiValue(contents, r.attempts) # 0
                THEN << MkSample(b, r.rate,
                          (1000 * ValueOrZero(contents, r.success))
                              \div KpiValue(contents, r.attempts)) >>
                ELSE << >>) \o DerivedFrom(b, contents, i + 1)

ZeroAttempts(doc) ==
    \E b \in Buckets : \E i \in 1..Len(DerivedRates) :
        /\ HasPair(doc.buckets[b], DerivedRates[i])
        /\ KpiValue(doc.buckets[b], DerivedRates[i].attempts) = 0

RECURSIVE DerivedOf(_, _)
DerivedOf(doc, b) ==
    IF b > NumBuckets THEN << >>
    ELSE DerivedFrom(b, doc.buckets[b], 1) \o DerivedOf(doc, b + 1)

\* The flat sequence of Samples of a document: bucket by bucket, the counters'
\* Samples followed by the derived ones.
RECURSIVE NormalizeFrom(_, _)
NormalizeFrom(doc, b) ==
    IF b > NumBuckets THEN << >>
    ELSE MappedFrom(b, doc.buckets[b], 1) \o DerivedFrom(b, doc.buckets[b], 1)
            \o NormalizeFrom(doc, b + 1)

Normalize(doc) == NormalizeFrom(Parsed(doc), 1)

\* ------------------------------------------------------------- aggregating
SampleNames(samples) == {samples[i].kpi_name : i \in 1..Len(samples)}

RECURSIVE ValuesOf(_, _)
ValuesOf(samples, name) ==
    IF samples = << >> THEN << >>
    ELSE (IF Head(samples).kpi_name = name THEN << Head(samples).value >> ELSE << >>)
            \o ValuesOf(Tail(samples), name)

RECURSIVE SeqSum(_)
SeqSum(vs) == IF vs = << >> THEN 0 ELSE Head(vs) + SeqSum(Tail(vs))

RECURSIVE Insert(_, _)
Insert(v, sorted) ==
    IF sorted = << >> THEN << v >>
    ELSE IF v <= Head(sorted) THEN << v >> \o sorted
    ELSE << Head(sorted) >> \o Insert(v, Tail(sorted))

RECURSIVE Sort(_)
Sort(vs) == IF vs = << >> THEN << >> ELSE Insert(Head(vs), Sort(Tail(vs)))

Mean(vs) == SeqSum(vs) \div Len(vs)

Median(vs) ==
    LET sorted == Sort(vs)
        n == Len(vs)
    IN  IF n % 2 = 1 THEN sorted[(n + 1) \div 2]
        ELSE (sorted[n \div 2] + sorted[(n \div 2) + 1]) \div 2

\* The sample standard deviation, rounded down (more than one value).
Stdev(vs) ==
    LET sorted == Sort(vs)
        spread == sorted[Len(vs)] - sorted[1]
        squares == SeqSum([i \in 1..Len(vs) |-> (vs[i] - Mean(vs)) * (vs[i] - Mean(vs))])
        variance == squares \div (Len(vs) - 1)
    IN  CHOOSE r \in 0..(2 * spread) : r * r <= variance /\ variance < (r + 1) * (r + 1)

\* Faulty variant: the median and a stdev of 0 are reported for a single sample too.
KPIStatisticsAlways(vs) ==
    [count |-> Len(vs), mean |-> Mean(vs), min |-> Sort(vs)[1], max |-> Sort(vs)[Len(vs)],
     median |-> Median(vs), stdev |-> IF Len(vs) > 1 THEN Stdev(vs) ELSE 0]

\* The statistics of the values of one KPI: median and stdev only with more than
\* one sample.
KPIStatistics(vs) ==
    IF Len(vs) > 1
      THEN [count |-> Len(vs), mean |-> Mean(vs), min |-> Sort(vs)[1],
            max |-> Sort(vs)[Len(vs)], median |-> Median(vs), stdev |-> Stdev(vs)]
      ELSE [count |-> Len(vs), mean |-> Mean(vs), min |-> Sort(vs)[1],
            max |-> Sort(vs)[Len(vs)]]

AggregateSamples(samples) ==
    [name \in SampleNames(samples) |-> KPIStatistics(ValuesOf(samples, name))]

\* --------------------------------------------------------- the run on a document
\* Faulty variant: a document without samples is rejected like an unknown schema.
RejectsEmpty(doc) == doc.schema \notin KnownSchemas \/ Normalize(doc) = << >>

\* The document has the markers of none of the known schemas.
Rejects(doc) == doc.schema \notin KnownSchemas

ParseError == [status |-> "ParseError", searched |-> KnownSchemas]

\* The result of the run on a document that was parsed.
RunResult(doc) ==
    LET samples == Normalize(doc)
        stats == AggregateSamples(samples)
        ev == [k \in DOMAIN stats |-> stats[k].mean]
        an == EvaluateThresholds(ev)
        f == DeriveFlags(an)
    IN  [status |-> "ok", samples |-> samples, derived |-> DerivedOf(Parsed(doc), 1),
         statistics |-> stats, evidence |-> ev, anomalies |-> an,
         root_cause |-> Classify(f), severity |-> OverallSeverity(MatchedRule(f), an)]

\* One run on the uploaded document: parse, aggregate, classify.
IngestRun ==
    /\ ingest = NoIngest
    /\ ingest' = IF Rejects(document) THEN ParseError ELSE RunResult(document)
    /\ UNCHANGED document
    /\ UNCHANGED <<rcaVars, driftVars, lockVars, outlierVars, frontVars>>

\* The same run when a rate is derived from 0 attempts and the division raises.
IngestRunRaises ==
    /\ ingest = NoIngest
    /\ ~Rejects(document)
    /\ ZeroAttempts(document)
    /\ ingest' = [status |-> "failed"]
    /\ UNCHANGED document
    /\ UNCHANGED <<rcaVars, driftVars, lockVars, outlierVars, frontVars>>

InitIngest ==
    /\ document \in Documents
    /\ ingest = NoIngest
    /\ RcaIdle
    /\ DriftIdle
    /\ LockIdle
    /\ OutlierIdle
    /\ FrontIdle

NextIngest ==
    \/ IngestRun
    \/ IngestRunRaises

SpecIngest == InitIngest /\ [][NextIngest]_vars

\* ========================================================= Outlier Detector
\* The number of time buckets of a run.
MaxBuckets == 11

\* The model's score of a feature vector: a negative score is beyond the model's
\* threshold for the configured contamination rate.
OutlierScore == 0 - 1
InlierScore == 1

\* What is done with a bucket in which a KPI is missing.
MissingPolicies == {"impute", "exclude"}

\* n buckets in time order, those of `beyond` scored as outliers; only the first
\* bucket may lack a KPI.
MkBuckets(n, beyond, firstComplete) ==
    [i \in 1..n |-> [timestamp |-> i,
                     complete |-> (i > 1 \/ firstComplete),
                     score |-> IF i \in beyond THEN OutlierScore ELSE InlierScore]]

\* The feature vectors: one per bucket, without the incomplete buckets when the
\* policy excludes them.
RECURSIVE CompleteOnly(_)
CompleteOnly(b) ==
    IF b = << >> THEN << >>
    ELSE (IF Head(b).complete THEN << Head(b) >> ELSE << >>) \o CompleteOnly(Tail(b))

FeatureRows(m) == IF m.policy = "exclude" THEN CompleteOnly(m.buckets) ELSE m.buckets

Flagged(row) == row.score < 0

RECURSIVE FlaggedTimestamps(_)
FlaggedTimestamps(rows) ==
    IF rows = << >> THEN << >>
    ELSE (IF Flagged(Head(rows)) THEN << Head(rows).timestamp >> ELSE << >>)
            \o FlaggedTimestamps(Tail(rows))

\* Faulty variant: the detector keeps the first ten flagged timestamps only.
AnomalyPeriodsCapped(rows) ==
    SubSeq(FlaggedTimestamps(rows), 1, Min2(10, Len(FlaggedTimestamps(rows))))

\* The timestamps of the flagged buckets, all of them.
AnomalyPeriods(rows) == FlaggedTimestamps(rows)

OutlierResult(m) ==
    LET rows == FeatureRows(m)
    IN  [status |-> "ok",
         scores |-> [i \in 1..Len(rows) |-> rows[i].score],
         flags |-> [i \in 1..Len(rows) |-> Flagged(rows[i])],
         anomaly_count |-> Cardinality({i \in 1..Len(rows) : Flagged(rows[i])}),
         anomaly_periods |-> AnomalyPeriods(rows)]

\* The detector is fitted on the run's feature vectors and scores them.
DetectOutliers ==
    /\ outlier = NoOutlier
    /\ outlier' = OutlierResult(matrix)
    /\ UNCHANGED matrix
    /\ UNCHANGED <<rcaVars, driftVars, lockVars, ingestVars, frontVars>>

\* Without any feature vector there is nothing to fit: no OutlierResult.
DetectOutliersSkips ==
    /\ outlier = NoOutlier
    /\ FeatureRows(matrix) = << >>
    /\ outlier' = [status |-> "skipped"]
    /\ UNCHANGED matrix
    /\ UNCHANGED <<rcaVars, driftVars, lockVars, ingestVars, frontVars>>

InitOutlier ==
    /\ \E n \in 0..MaxBuckets : \E p \in MissingPolicies :
       \E beyond \in SUBSET (1..n) : \E c \in BOOLEAN :
          matrix = [policy |-> p, buckets |-> MkBuckets(n, beyond, c)]
    /\ outlier = NoOutlier
    /\ RcaIdle
    /\ DriftIdle
    /\ LockIdle
    /\ IngestIdle
    /\ FrontIdle

NextOutlier ==
    \/ DetectOutliers
    \/ DetectOutliersSkips

SpecOutlier == InitOutlier /\ [][NextOutlier]_vars

\* ================================================================ frontend
\* ------------------------------------------------------------- file names
\* A file name is a sequence of characters.
FileNames ==
    { <<"p", "m", ".", "x", "m", "l", ".", "g", "z">>,
      <<"P", "M", ".", "X", "M", "L">>,
      <<"p", "m", ".", "Z", "i", "p">>,
      <<"p", "m", ".", "t", "x", "t">>,
      <<"x", "m", "l">> }

UpperToLower ==
    ("P" :> "p") @@ ("M" :> "m") @@ ("X" :> "x") @@ ("L" :> "l") @@ ("Z" :> "z") @@
    ("G" :> "g") @@ ("I" :> "i") @@ ("T" :> "t") @@ ("B" :> "b") @@ ("A" :> "a") @@ ("K" :> "k")

\* String.prototype.toLowerCase
ToLowerCase(name) ==
    [i \in 1..Len(name) |->
        IF name[i] \in DOMAIN UpperToLower THEN UpperToLower[name[i]] ELSE name[i]]

\* String.prototype.endsWith
EndsWith(name, suffix) ==
    /\ Len(suffix) <= Len(name)
    /\ SubSeq(name, Len(name) - Len(suffix) + 1, Len(name)) = suffix

AcceptedSuffixes ==
    { <<".", "x", "m", "l", ".", "g", "z">>, <<".", "g", "z">>,
      <<".", "z", "i", "p">>, <<".", "x", "m", "l">> }

\* Faulty variant: every name that ends in xml is accepted.
AcceptsAnyXml(name) == EndsWith(ToLowerCase(name), <<"x", "m", "l">>)

\* The test of handleFileChange on the selected file's name.
Accepts(name) == \E suffix \in AcceptedSuffixes : EndsWith(ToLowerCase(name), suffix)

File(name) == [t |-> "file", name |-> name]

\* --------------------------------------------------------- sessionStorage
\* The empty string, and the value undefined of a missing field.
EmptyText == [kind |-> "empty"]
Undefined == [t |-> "undefined"]

\* What a truthiness test of getItem's result gives.
Truthy(item) == item.kind \in {"unparsable", "json"}

\* JSON.parse succeeds on the item, and its value then.
Parses(item) == item.kind = "json"
Parse(item) == item.value

\* setItem(key, JSON.stringify(v)): undefined is stored as the text "undefined",
\* which JSON.parse rejects.
Stringify(v) == IF v = Undefined THEN Unparsable ELSE Json(v)

KpiArrays == {JArray(<< >>), JArray(<<"sample">>)}

\* What a session may hold when a page is opened.
StoredResults == {Absent, EmptyText, Unparsable, Json(JNull), Json(JResult(0, JArray(<<"sample">>)))}
StoredKpiData == {Absent, EmptyText, Unparsable, Json(JNull)} \cup {Json(a) : a \in KpiArrays}

\* ------------------------------------------------------------ mounting a page
Pages == {"/upload", "/dashboard", "/rca", "/ask-ai"}

\* DashboardPage's effect: both items are parsed when both are truthy; a throw of
\* the second JSON.parse leaves the first setState in place.
DashboardMounted(st) ==
    IF Truthy(st["rcaResults"]) /\ Truthy(st["kpiData"]) /\ Parses(st["rcaResults"])
      THEN [rcaResults |-> Parse(st["rcaResults"]),
            kpiData |-> IF Parses(st["kpiData"]) THEN Parse(st["kpiData"])
                        ELSE DashboardInitial.kpiData,
            loading |-> FALSE]
      ELSE [DashboardInitial EXCEPT !.loading = FALSE]

\* RCAPage's effect parses rcaResults or asks the router for /upload.
RcaLoads(st) == Truthy(st["rcaResults"]) /\ Parses(st["rcaResults"])

RcaMounted(st) ==
    IF RcaLoads(st)
      THEN [RcaPageInitial EXCEPT !.rcaResults = Parse(st["rcaResults"]), !.loading = FALSE]
      ELSE RcaPageInitial

\* AskAIPage's effect.
AskMounted(st) ==
    [AskInitial EXCEPT !.hasData = Truthy(st["rcaResults"]) /\ Truthy(st["kpiData"])]

\* Faulty variant: no effect asks the router for another page.
PushNever(p, st) == Null

\* What router.push the effect of page p issues.
PushOnMount(p, st) == IF p = "/rca" /\ ~RcaLoads(st) THEN "/upload" ELSE Null

\* Requests of a component that is no longer mounted: their continuations still
\* run, their setState calls have no effect.
Orphaned(pending) == {[r EXCEPT !.live = FALSE] : r \in pending}

\* Page p is shown: it mounts with its initial state and runs its effect; every
\* other page component is gone.
Mount(p) ==
    /\ route' = [page |-> p, push |-> PushOnMount(p, sessionStorage)]
    /\ uploadPage' = UploadInitial
    /\ dashboardPage' = IF p = "/dashboard" THEN DashboardMounted(sessionStorage)
                        ELSE DashboardInitial
    /\ rcaPage' = IF p = "/rca" THEN RcaMounted(sessionStorage) ELSE RcaPageInitial
    /\ askPage' = IF p = "/ask-ai" THEN AskMounted(sessionStorage) ELSE AskInitial

\* The user follows a link of the navigation bar.
Navigate(p) ==
    /\ Mount(p)
    /\ network' = [network EXCEPT !.pending = Orphaned(@)]
    /\ UNCHANGED sessionStorage
    /\ UNCHANGED <<rcaVars, driftVars, lockVars, ingestVars, outlierVars>>

\* The router completes a router.push.
RouterCompletes ==
    /\ route.push # Null
    /\ Mount(route.push)
    /\ network' = [network EXCEPT !.pending = Orphaned(@)]
    /\ UNCHANGED sessionStorage
    /\ UNCHANGED <<rcaVars, driftVars, lockVars, ingestVars, outlierVars>>

\* ------------------------------------------------------------------ requests
\* How many requests the user starts in a session.
MaxRequests == 2

\* There is room for one more.
CanSend == network.started < MaxRequests

\* A component posts to an endpoint: the request is pending. A request carries
\* the number of the user's action it belongs to.
Post(net, attempt, endpoint, payload, live) ==
    [net EXCEPT !.pending = @ \cup {[attempt |-> attempt, endpoint |-> endpoint,
                                     payload |-> payload, live |-> live]}]

\* Request r is answered; the server keeps the file of a successful /upload.
Settle(net, r, ok) ==
    [net EXCEPT !.pending = @ \ {r},
                !.uploaded = IF ok /\ r.endpoint = "/upload" THEN @ \cup {r.payload} ELSE @]

\* The user starts a request.
Started(net) == [net EXCEPT !.started = @ + 1]

\* ---------------------------------------------------------------- UploadPage
\* handleFileChange with a chosen file; the input is disabled during a request.
HandleFileChange(name) ==
    /\ route.page = "/upload"
    /\ ~(uploadPage.uploading \/ uploadPage.analyzing)
    /\ uploadPage' = IF Accepts(name)
                       THEN [uploadPage EXCEPT !.file = File(name), !.error = Null]
                       ELSE [uploadPage EXCEPT
                               !.error = "Please select a .xml.gz, .gz, .zip, or .xml file",
                               !.file = JNull]
    /\ UNCHANGED <<sessionStorage, route, network, askPage, rcaPage, dashboardPage>>
    /\ UNCHANGED <<rcaVars, driftVars, lockVars, ingestVars, outlierVars>>

\* handleUpload without a file: its own check returns before any request.
HandleUploadNoFile ==
    /\ route.page = "/upload"
    /\ ~(uploadPage.uploading \/ uploadPage.analyzing)
    /\ uploadPage.file = JNull
    /\ uploadPage' = [uploadPage EXCEPT !.error = "Please select a file first"]
    /\ UNCHANGED <<sessionStorage, route, network, askPage, rcaPage, dashboardPage>>
    /\ UNCHANGED <<rcaVars, driftVars, lockVars, ingestVars, outlierVars>>

\* handleUpload up to its await: the file is posted to /upload.
HandleUpload ==
    /\ route.page = "/upload"
    /\ ~(uploadPage.uploading \/ uploadPage.analyzing)
    /\ uploadPage.file # JNull
    /\ CanSend
    /\ uploadPage' = [uploadPage EXCEPT !.uploading = TRUE, !.error = Null, !.success = FALSE]
    /\ network' = Post(Started(network), network.started + 1, "/upload", uploadPage.file, TRUE)
    /\ UNCHANGED <<sessionStorage, route, askPage, rcaPage, dashboardPage>>
    /\ UNCHANGED <<rcaVars, driftVars, lockVars, ingestVars, outlierVars>>

\* handleAnalyze up to its await, with the file of the closure it is called in:
\* the page state and the network after it.
AnalyzeStarted(pg, file, live) ==
    IF file = JNull \/ ~live THEN pg ELSE [pg EXCEPT !.analyzing = TRUE, !.error = Null]

AnalyzePosted(net, attempt, file, live) ==
    IF file = JNull THEN net ELSE Post(net, attempt, "/analyze", file, live)

\* /upload answers with success: handleUpload continues and calls handleAnalyze.
UploadSucceeds(r) ==
    /\ r \in network.pending /\ r.endpoint = "/upload"
    /\ uploadPage' = AnalyzeStarted(IF r.live
                                      THEN [uploadPage EXCEPT !.success = TRUE,
                                                              !.uploading = FALSE]
                                      ELSE uploadPage,
                                    r.payload, r.live)
    /\ network' = AnalyzePosted(Settle(network, r, TRUE), r.attempt, r.payload, r.live)
    /\ UNCHANGED <<sessionStorage, route, askPage, rcaPage, dashboardPage>>
    /\ UNCHANGED <<rcaVars, driftVars, lockVars, ingestVars, outlierVars>>

\* What handleUpload's catch block reports for a failure of each kind.
UploadFailures == {"response", "no response"}

UploadErrorMessage(kind) ==
    IF kind = "response" THEN "Server error" ELSE "Cannot connect to server"

\* Faulty variant: the catch block goes on to analyze the file.
UploadFailsAnalyzes(r, kind) ==
    /\ r \in network.pending /\ r.endpoint = "/upload"
    /\ uploadPage' = AnalyzeStarted(IF r.live
                                      THEN [uploadPage EXCEPT !.error = UploadErrorMessage(kind),
                                                              !.uploading = FALSE]
                                      ELSE uploadPage,
                                    r.payload, r.live)
    /\ network' = AnalyzePosted(Settle(network, r, FALSE), r.attempt, r.payload, r.live)
    /\ UNCHANGED <<sessionStorage, route, askPage, rcaPage, dashboardPage>>
    /\ UNCHANGED <<rcaVars, driftVars, lockVars, ingestVars, outlierVars>>

\* /upload fails: handleUpload's catch block.
UploadFails(r, kind) ==
    /\ r \in network.pending /\ r.endpoint = "/upload"
    /\ uploadPage' = IF r.live
                       THEN [uploadPage EXCEPT !.error = UploadErrorMessage(kind),
                                               !.uploading = FALSE]
                       ELSE uploadPage
    /\ network' = Settle(network, r, FALSE)
    /\ UNCHANGED <<sessionStorage, route, askPage, rcaPage, dashboardPage>>
    /\ UNCHANGED <<rcaVars, driftVars, lockVars, ingestVars, outlierVars>>

\* The bodies of a successful /analyze response: a result with or without its
\* kpi_data field, or null.
AnalyzeBodies ==
    {JNull, JResult(1, Undefined), JResult(1, JArray(<<"sample">>))}

\* The two setItem calls of handleAnalyze, of which the first `written` complete:
\* a setItem may throw for lack of quota, and kpi_data of a null body throws;
\* the handler catches both and goes on.
WriteResults(st, body, written) ==
    LET st1 == IF written >= 1 THEN [st EXCEPT !["rcaResults"] = Stringify(body)] ELSE st
    IN  IF written >= 2 /\ body # JNull
          THEN [st1 EXCEPT !["kpiData"] = Stringify(body.kpi_data)]
          ELSE st1

\* /analyze answers with success: the results are stored and /dashboard is pushed.
AnalyzeSucceeds(r, body, written) ==
    /\ r \in network.pending /\ r.endpoint = "/analyze"
    /\ sessionStorage' = WriteResults(sessionStorage, body, written)
    /\ route' = [route EXCEPT !.push = "/dashboard"]
    /\ network' = Settle(network, r, TRUE)
    /\ UNCHANGED <<uploadPage, askPage, rcaPage, dashboardPage>>
    /\ UNCHANGED <<rcaVars, driftVars, lockVars, ingestVars, outlierVars>>

\* Faulty variant: the catch block removes the stored results.
AnalyzeFailsClears(r) ==
    /\ r \in network.pending /\ r.endpoint = "/analyze"
    /\ uploadPage' = IF r.live
                       THEN [uploadPage EXCEPT !.error = "Analysis failed",
                                               !.analyzing = FALSE]
                       ELSE uploadPage
    /\ sessionStorage' = EmptyStorage
    /\ network' = Settle(network, r, FALSE)
    /\ UNCHANGED <<route, askPage, rcaPage, dashboardPage>>
    /\ UNCHANGED <<rcaVars, driftVars, lockVars, ingestVars, outlierVars>>

\* /analyze fails: handleAnalyze's catch block.
AnalyzeFails(r) ==
    /\ r \in network.pending /\ r.endpoint = "/analyze"
    /\ uploadPage' = IF r.live
                       THEN [uploadPage EXCEPT !.error = "Analysis failed",
                                               !.analyzing = FALSE]
                       ELSE uploadPage
    /\ network' = Settle(network, r, FALSE)
    /\ UNCHANGED <<sessionStorage, route, askPage, rcaPage, dashboardPage>>
    /\ UNCHANGED <<rcaVars, driftVars, lockVars, ingestVars, outlierVars>>

\* ----------------------------------------------------------------- AskAIPage
\* The texts typed into the question field, as sequences of characters.
Questions ==
    { << >>, <<" ", "\n">>, <<"w", "h", "y">>, <<" ", "w", "h", "y", "\n">> }

Whitespace == {" ", "\n"}

\* String.prototype.trim: leading and trailing whitespace is removed.
RECURSIVE TrimStart(_)
TrimStart(q) ==
    IF q # << >> /\ Head(q) \in Whitespace THEN TrimStart(Tail(q)) ELSE q

RECURSIVE TrimEnd(_)
TrimEnd(q) ==
    IF q # << >> /\ q[Len(q)] \in Whitespace THEN TrimEnd(SubSeq(q, 1, Len(q) - 1)) ELSE q

Trim(q) == TrimEnd(TrimStart(q))

\* Faulty variant: the question is tested as typed.
BlankUntrimmed(q) == q = << >>

\* !question.trim()
Blank(q) == Trim(q) = << >>

\* The question field changes, by typing or by an example question.
SetQuestion(q) ==
    /\ route.page = "/ask-ai"
    /\ ~askPage.loading
    /\ askPage' = [askPage EXCEPT !.question = q]
    /\ UNCHANGED <<sessionStorage, route, network, uploadPage, rcaPage, dashboardPage>>
    /\ UNCHANGED <<rcaVars, driftVars, lockVars, ingestVars, outlierVars>>

\* The "Go to Upload" button shown while there is no data.
GoToUpload ==
    /\ route.page = "/ask-ai"
    /\ ~askPage.hasData
    /\ route' = [route EXCEPT !.push = "/upload"]
    /\ UNCHANGED <<sessionStorage, network, uploadPage, askPage, rcaPage, dashboardPage>>
    /\ UNCHANGED <<rcaVars, driftVars, lockVars, ingestVars, outlierVars>>

\* handleSubmit with a blank question.
HandleSubmitBlank ==
    /\ route.page = "/ask-ai"
    /\ ~askPage.loading
    /\ Blank(askPage.question)
    /\ askPage' = [askPage EXCEPT !.error = "Please enter a question"]
    /\ UNCHANGED <<sessionStorage, route, network, uploadPage, rcaPage, dashboardPage>>
    /\ UNCHANGED <<rcaVars, driftVars, lockVars, ingestVars, outlierVars>>

\* handleSubmit without analysis data.
HandleSubmitNoData ==
    /\ route.page = "/ask-ai"
    /\ ~askPage.loading
    /\ ~Blank(askPage.question)
    /\ ~askPage.hasData
    /\ askPage' = [askPage EXCEPT !.error = "Please upload and analyze a PM file first"]
    /\ UNCHANGED <<sessionStorage, route, network, uploadPage, rcaPage, dashboardPage>>
    /\ UNCHANGED <<rcaVars, driftVars, lockVars, ingestVars, outlierVars>>

\* The two stored items as handleSubmit reads them: a falsy item gives the
\* default, a truthy one is parsed, and JSON.parse may throw.
SubmitParses(st) ==
    /\ Truthy(st["rcaResults"]) => Parses(st["rcaResults"])
    /\ Truthy(st["kpiData"]) => Parses(st["kpiData"])

SubmitPayload(q, st) ==
    [question |-> q,
     kpi_data |-> IF Truthy(st["kpiData"]) THEN Parse(st["kpiData"]) ELSE JArray(<< >>),
     rca_result |-> IF Truthy(st["rcaResults"]) THEN Parse(st["rcaResults"]) ELSE JNull]

\* handleSubmit up to its await: the last answer is cleared and the question posted.
HandleSubmit ==
    /\ route.page = "/ask-ai"
    /\ ~askPage.loading
    /\ ~Blank(askPage.question)
    /\ askPage.hasData
    /\ SubmitParses(sessionStorage)
    /\ CanSend
    /\ askPage' = [askPage EXCEPT !.loading = TRUE, !.error = Null,
                                  !.answer = Null, !.confidence = Null]
    /\ network' = Post(Started(network), network.started + 1, "/ask-ai",
                       SubmitPayload(askPage.question, sessionStorage), TRUE)
    /\ UNCHANGED <<sessionStorage, route, uploadPage, rcaPage, dashboardPage>>
    /\ UNCHANGED <<rcaVars, driftVars, lockVars, ingestVars, outlierVars>>

\* handleSubmit when JSON.parse of a stored item throws: the catch and finally
\* blocks run before any request.
HandleSubmitThrows ==
    /\ route.page = "/ask-ai"
    /\ ~askPage.loading
    /\ ~Blank(askPage.question)
    /\ askPage.hasData
    /\ ~SubmitParses(sessionStorage)
    /\ askPage' = [askPage EXCEPT !.loading = FALSE, !.error = "Failed to get AI response",
                                  !.answer = Null, !.confidence = Null]
    /\ UNCHANGED <<sessionStorage, route, network, uploadPage, rcaPage, dashboardPage>>
    /\ UNCHANGED <<rcaVars, driftVars, lockVars, ingestVars, outlierVars>>

\* The body of a successful /ask-ai response; the confidence is written as text.
AskBodies == {[answer |-> "answer", confidence |-> "0.85"]}

\* /ask-ai answers with success.
AskSucceeds(r, body) ==
    /\ r \in network.pending /\ r.endpoint = "/ask-ai"
    /\ askPage' = IF r.live
                    THEN [askPage EXCEPT !.answer = body.answer,
                                         !.confidence = body.confidence,
                                         !.loading = FALSE]
                    ELSE askPage
    /\ network' = Settle(network, r, TRUE)
    /\ UNCHANGED <<sessionStorage, route, uploadPage, rcaPage, dashboardPage>>
    /\ UNCHANGED <<rcaVars, driftVars, lockVars, ingestVars, outlierVars>>

\* /ask-ai fails.
AskFails(r) ==
    /\ r \in network.pending /\ r.endpoint = "/ask-ai"
    /\ askPage' = IF r.live
                    THEN [askPage EXCEPT !.error = "Failed to get AI response",
                                         !.loading = FALSE]
                    ELSE askPage
    /\ network' = Settle(network, r, FALSE)
    /\ UNCHANGED <<sessionStorage, route, uploadPage, rcaPage, dashboardPage>>
    /\ UNCHANGED <<rcaVars, driftVars, lockVars, ingestVars, outlierVars>>

\* ------------------------------------------------------------------- RCAPage
\* What RCAPage returns: the loading text, nothing, or the analysis.
RcaView(pg) ==
    IF pg.loading THEN "Loading RCA analysis..."
    ELSE IF pg.rcaResults = JNull THEN "(nothing)"
    ELSE "results"

\* handleGenerateReport up to its await; its button is part of the analysis
\* view. No component stores alarmSummary, backhaulSummary or attachSummary, so
\* the three are read as null.
HandleGenerateReport ==
    /\ route.page = "/rca"
    /\ RcaView(rcaPage) = "results"
    /\ ~rcaPage.reportLoading
    /\ CanSend
    /\ rcaPage' = [rcaPage EXCEPT !.reportLoading = TRUE, !.reportError = Null]
    /\ network' = Post(Started(network), network.started + 1, "/incident-report",
                       [rcaResult |-> rcaPage.rcaResults], TRUE)
    /\ UNCHANGED <<sessionStorage, route, uploadPage, askPage, dashboardPage>>
    /\ UNCHANGED <<rcaVars, driftVars, lockVars, ingestVars, outlierVars>>

\* /incident-report answers with the document, which is downloaded.
ReportSucceeds(r) ==
    /\ r \in network.pending /\ r.endpoint = "/incident-report"
    /\ rcaPage' = IF r.live THEN [rcaPage EXCEPT !.reportLoading = FALSE] ELSE rcaPage
    /\ network' = Settle(network, r, TRUE)
    /\ UNCHANGED <<sessionStorage, route, uploadPage, askPage, dashboardPage>>
    /\ UNCHANGED <<rcaVars, driftVars, lockVars, ingestVars, outlierVars>>

\* Faulty variant: the catch block discards the analysis, stored and shown.
ReportFailsDiscards(r) ==
    /\ r \in network.pending /\ r.endpoint = "/incident-report"
    /\ rcaPage' = IF r.live
                    THEN [rcaPage EXCEPT !.reportError = "Failed to generate incident report",
                                         !.reportLoading = FALSE,
                                         !.rcaResults = JNull]
                    ELSE rcaPage
    /\ sessionStorage' = [sessionStorage EXCEPT !["rcaResults"] = Absent]
    /\ network' = Settle(network, r, FALSE)
    /\ UNCHANGED <<route, uploadPage, askPage, dashboardPage>>
    /\ UNCHANGED <<rcaVars, driftVars, lockVars, ingestVars, outlierVars>>

\* /incident-report fails.
ReportFails(r) ==
    /\ r \in network.pending /\ r.endpoint = "/incident-report"
    /\ rcaPage' = IF r.live
                    THEN [rcaPage EXCEPT !.reportError = "Failed to generate incident report",
                                         !.reportLoading = FALSE]
                    ELSE rcaPage
    /\ network' = Settle(network, r, FALSE)
    /\ UNCHANGED <<sessionStorage, route, uploadPage, askPage, dashboardPage>>
    /\ UNCHANGED <<rcaVars, driftVars, lockVars, ingestVars, outlierVars>>

\* ------------------------------------------------------------- DashboardPage
\* Faulty variant: only a missing rcaResults gives the "No Data Available" card.
DashboardViewIgnoresKpiData(pg) ==
    IF pg.loading THEN "Loading dashboard..."
    ELSE IF pg.rcaResults = JNull THEN "No Data Available"
    ELSE "charts"

\* What DashboardPage returns. The length of a kpiData that was stored as null
\* cannot be read: rendering fails.
DashboardView(pg) ==
    IF pg.loading THEN "Loading dashboard..."
    ELSE IF pg.rcaResults = JNull THEN "No Data Available"
    ELSE IF pg.kpiData = JNull THEN "(render error)"
    ELSE IF Len(pg.kpiData.items) = 0 THEN "No Data Available"
    ELSE "charts"

\* ------------------------------------------------------------ the browser session
\* The browser is opened: no page is mounted and nothing is pending.
Opened ==
    /\ RcaIdle /\ DriftIdle /\ LockIdle /\ IngestIdle /\ OutlierIdle
    /\ route = [page |-> "(closed)", push |-> Null]
    /\ network = NoRequests
    /\ uploadPage = UploadInitial
    /\ askPage = AskInitial
    /\ rcaPage = RcaPageInitial
    /\ dashboardPage = DashboardInitial

Storage(r, k) == [key \in StorageKeys |-> IF key = "rcaResults" THEN r ELSE k]

\* What an earlier analysis of the session stored.
PreviousResults ==
    Storage(Json(JResult(0, JArray(<<"sample">>))), Json(JArray(<<"sample">>)))

\* The upload flow starts in a fresh session or after an earlier analysis.
InitUpload ==
    /\ Opened
    /\ sessionStorage \in {EmptyStorage, PreviousResults}

\* The upload flow: the user moves between the pages and uploads files.
NextUpload ==
    \/ \E p \in Pages : Navigate(p)
    \/ RouterCompletes
    \/ \E name \in FileNames : HandleFileChange(name)
    \/ HandleUploadNoFile
    \/ HandleUpload
    \/ \E r \in network.pending : UploadSucceeds(r)
    \/ \E r \in network.pending : \E kind \in UploadFailures : UploadFails(r, kind)
    \/ \E r \in network.pending : \E body \in AnalyzeBodies : \E written \in 0..2 :
         AnalyzeSucceeds(r, body, written)
    \/ \E r \in network.pending : AnalyzeFails(r)

SpecUpload == InitUpload /\ [][NextUpload]_vars

\* The pages that read the stored analysis open on whatever sessionStorage holds.
InitPages ==
    /\ Opened
    /\ \E r \in StoredResults : \E k \in StoredKpiData : sessionStorage = Storage(r, k)

\* The user moves between the pages,
\* asks questions and generates reports.
NextPages ==
    \/ \E p \in Pages : Navigate(p)
    \/ RouterCompletes
    \/ \E q \in Questions : SetQuestion(q)
    \/ GoToUpload
    \/ HandleSubmitBlank
    \/ HandleSubmitNoData
    \/ HandleSubmit
    \/ HandleSubmitThrows
    \/ \E r \in network.pending : \E body \in AskBodies : AskSucceeds(r, body)
    \/ \E r \in network.pending : AskFails(r)
    \/ HandleGenerateReport
    \/ \E r \in network.pending : ReportSucceeds(r)
    \/ \E r \in network.pending : ReportFails(r)

SpecPages == InitPages /\ [][NextPages]_vars

\* ------------------------------------------------- RCAPage: the anomaly card
\* The longest anomaly_periods list of a stored result.
MaxPeriods == 12

\* How many periods the card lists.
DisplayCap == 10

\* A field that the result does not have.
Missing == 0 - 1

EmptyObject == [field \in {} |-> Missing]

\* The anomaly_detection object of a result: anomaly_count and anomaly_periods
\* are optional; the periods are n timestamps in order.
AnomalyDetection(count, n) ==
    (IF count = Missing THEN EmptyObject ELSE [anomaly_count |-> count])
      @@ (IF n = Missing THEN EmptyObject ELSE [anomaly_periods |-> [i \in 1..n |-> i]])

JResultWith(id, kpi_data, anomaly_detection) ==
    [t |-> "object", id |-> id, kpi_data |-> kpi_data, anomaly_detection |-> anomaly_detection]

\* Array.prototype.slice(from, to) for 0 <= from <= to.
Slice(items, from, to) == SubSeq(items, from + 1, Min2(to, Len(items)))

\* Faulty variant: the "+k more" label appears from the capped length on.
MoreLabelAtCap(periods) ==
    IF Len(periods) >= DisplayCap THEN <<Len(periods) - DisplayCap>> ELSE << >>

\* The "+k more" label: k when it is rendered, nothing otherwise.
MoreLabel(periods) ==
    IF Len(periods) > DisplayCap THEN <<Len(periods) - DisplayCap>> ELSE << >>

NoCard == [card |-> FALSE, count |-> << >>, periods |-> << >>, more |-> << >>]

\* What the anomaly card renders of a result: the count, the listed periods and
\* the "+k more" label, each as a sequence that is empty when it is not rendered.
AnomalyCard(res) ==
    IF "anomaly_detection" \notin DOMAIN res THEN NoCard
    ELSE LET ad == res.anomaly_detection
             listed == "anomaly_periods" \in DOMAIN ad /\ Len(ad.anomaly_periods) > 0
         IN  IF "anomaly_count" \notin DOMAIN ad
               THEN [NoCard EXCEPT !.card = TRUE]
               ELSE [card |-> TRUE,
                     count |-> <<ad.anomaly_count>>,
                     periods |-> IF listed THEN Slice(ad.anomaly_periods, 0, DisplayCap)
                                 ELSE << >>,
                     more |-> IF listed THEN MoreLabel(ad.anomaly_periods) ELSE << >>]

\* The session holds an analysis, without or with an anomaly_detection object.
InitRcaCard ==
    /\ Opened
    /\ \/ sessionStorage = PreviousResults
       \/ \E count \in (0..MaxPeriods) \cup {Missing} : \E n \in (0..MaxPeriods) \cup {Missing} :
            sessionStorage =
              Storage(Json(JResultWith(0, JArray(<<"sample">>), AnomalyDetection(count, n))),
                      Json(JArray(<<"sample">>)))

\* The user opens the RCA page and generates reports.
NextRcaCard ==
    \/ Navigate("/rca")
    \/ HandleGenerateReport
    \/ \E r \in network.pending : ReportSucceeds(r)
    \/ \E r \in network.pending : ReportFails(r)

SpecRcaCard == InitRcaCard /\ [][NextRcaCard]_vars

\* ================================================================== claims
TransportLabel == "Transport/TIMING Fault"
TddLabel == "TDD Frame Misalignment"
NoAnomalyLabel == "No significant anomaly detected"

\* The rule that wins for a flag assignment: it matches and no rule of lower index does.
Wins(r, f) == Matches(r, f) /\ \A q \in 1..(r - 1) : ~Matches(q, f)

\* C1: rules are tried in rule-index order and the first match wins; with s1_fail,
\* rrc_or_erab_fail and prb_fail all set the label is "Transport/TIMING Fault"
\* (rule 1), whatever the other three flags are, never "Microwave ACM Fade".
Thm_C1 ==
    pc = "labelled" =>
        /\ (flags.s1_fail /\ flags.rrc_or_erab_fail /\ flags.prb_fail)
              => root_cause = TransportLabel
        /\ \A r \in 1..NumRules : Wins(r, flags) => root_cause = RuleLabel[r]

Wit_C1 ==
    /\ pc = "labelled"
    /\ \A n \in FlagNames : flags[n]
    /\ root_cause = TransportLabel

\* C2 as stated: with sinr_fail and bler_fail set and prb_fail clear the label is
\* "TDD Frame Misalignment", whatever s1_fail, rrc_or_erab_fail and paging_fail are.
Cex_C2 ==
    (pc = "labelled" /\ flags.sinr_fail /\ flags.bler_fail /\ ~flags.prb_fail)
        => root_cause = TddLabel

\* C2 amended: with sinr_fail and bler_fail set and prb_fail clear the label is
\* "TDD Frame Misalignment" unless s1_fail and rrc_or_erab_fail are both set, and
\* then rule 1 wins and the label is "Transport/TIMING Fault".
Thm_C2 ==
    (pc = "labelled" /\ flags.sinr_fail /\ flags.bler_fail /\ ~flags.prb_fail)
        => root_cause = IF flags.s1_fail /\ flags.rrc_or_erab_fail
                          THEN TransportLabel ELSE TddLabel

Wit_C2 ==
    /\ pc = "labelled"
    /\ flags.sinr_fail /\ flags.bler_fail /\ ~flags.prb_fail
    /\ flags.s1_fail /\ ~flags.rrc_or_erab_fail /\ flags.paging_fail
    /\ root_cause = TddLabel

\* C3 as stated: a run whose Anomaly list is not empty never ends with the label
\* "No significant anomaly detected" and severity low.
Cex_C3 ==
    (pc = "done" /\ anomalies # << >>)
        => ~(root_cause = NoAnomalyLabel /\ severity = "low")

\* No KPI of the threshold table that has statistics is outside its bound.
WithinBounds ==
    \A i \in 1..Len(KPI_THRESHOLDS) :
        LET t == KPI_THRESHOLDS[i]
        IN  t.name \in DOMAIN evidence =>
              /\ t.comparison = "min" => evidence[t.name] >= t.bound
              /\ t.comparison = "max" => evidence[t.name] <= t.bound

\* C4: when no KPI mean breaches its threshold the run ends with the label
\* "No significant anomaly detected", severity low and an empty Anomaly list.
Thm_C4 ==
    (pc \in {"done", "failed"} /\ WithinBounds)
        => /\ pc = "done"
           /\ root_cause = NoAnomalyLabel
           /\ severity = "low"
           /\ anomalies = << >>

Wit_C4 ==
    /\ pc = "done"
    /\ WithinBounds
    /\ Cardinality(DOMAIN evidence \cap ThresholdNames) >= 2
    /\ root_cause = NoAnomalyLabel
    /\ anomalies = << >>

\* C5: every assignment of the six flags gets exactly one label: exactly one rule
\* wins, the label is that rule's, and it is one of the closed set of labels.
Thm_C5 ==
    pc = "labelled" =>
        /\ root_cause \in RootCauseLabels
        /\ Cardinality({r \in 1..NumRules : Wins(r, flags)}) = 1
        /\ Cardinality({l \in RootCauseLabels :
                           \E r \in 1..NumRules : Wins(r, flags) /\ RuleLabel[r] = l}) = 1

Wit_C5 ==
    /\ pc = "labelled"
    /\ \A n \in FlagNames : ~flags[n]
    /\ root_cause = NoAnomalyLabel

\* C6: no assignment of the flags is labelled "RF Quality Degradation": whenever
\* sinr_fail and bler_fail are set, one of rules 1 to 4 has already matched.
Thm_C6 ==
    /\ root_cause # "RF Quality Degradation"
    /\ (pc = "labelled" /\ Rule6(flags))
          => /\ \E r \in 1..4 : Wins(r, flags)
             /\ \E r \in 1..4 : root_cause = RuleLabel[r]

Wit_C6 ==
    /\ pc = "labelled"
    /\ flags.sinr_fail /\ flags.bler_fail /\ flags.prb_fail
    /\ ~flags.s1_fail /\ ~flags.paging_fail
    /\ root_cause = "RF Interference / Sector Overshoot"

\* C7: an Anomaly whose mean is off its bound by exactly 20% of the bound has
\* severity medium, one that is off by more has severity high, and no Anomaly
\* has severity low.
Thm_C7 ==
    \A i \in 1..Len(anomalies) :
        LET a == anomalies[i]
            d == Abs(a.value - a.threshold)
        IN  /\ a.severity \in {"medium", "high"}
            /\ (a.threshold # 0 /\ 5 * d = a.threshold) => a.severity = "medium"
            /\ (a.threshold # 0 /\ 5 * d < a.threshold) => a.severity = "medium"
            /\ (a.threshold # 0 /\ 5 * d > a.threshold) => a.severity = "high"

Wit_C7 ==
    /\ pc = "done"
    /\ \E i, j \in 1..Len(anomalies) :
          /\ anomalies[i].threshold # 0
          /\ 5 * Abs(anomalies[i].value - anomalies[i].threshold) = anomalies[i].threshold
          /\ anomalies[i].severity = "medium"
          /\ 5 * Abs(anomalies[j].value - anomalies[j].threshold) = anomalies[j].threshold + 5
          /\ anomalies[j].severity = "high"

\* The KPI is in the threshold table, has statistics and its mean is outside the bound.
Breaches(k, type) ==
    \E i \in 1..Len(KPI_THRESHOLDS) :
        LET t == KPI_THRESHOLDS[i]
        IN  /\ t.name = k
            /\ k \in DOMAIN evidence
            /\ \/ t.comparison = "min" /\ evidence[k] < t.bound /\ type = "below_threshold"
               \/ t.comparison = "max" /\ evidence[k] > t.bound /\ type = "above_threshold"

\* C8 as stated: once threshold evaluation has run, a KPI has an Anomaly if and only
\* if it is in the threshold table and its mean fails the bound (below_threshold
\* under a min bound, above_threshold over a max bound).
Cex_C8 ==
    pc \in {"done", "failed"} =>
        \A k \in KpiNames : \A type \in {"below_threshold", "above_threshold"} :
            (\E i \in 1..Len(anomalies) : anomalies[i].kpi = k /\ anomalies[i].type = type)
                <=> Breaches(k, type)

\* The Anomalies of the KPI families that the winning rule names.
ContributingTo(r) ==
    {i \in 1..Len(anomalies) :
        \E n \in FlagNames :
            /\ n \in RuleFamilies[r]
            /\ anomalies[i].kpi \in KpiFamily[n]}

\* C9: the overall severity is the maximum (low < medium < high) of the severities
\* of the Anomalies of the winning rule's KPI families; an Anomaly of a KPI outside
\* those families does not raise it.
Thm_C9 ==
    pc = "done" =>
        \A r \in 1..NumRules : Wins(r, flags) =>
            /\ severity \in Severities
            /\ \A i \in ContributingTo(r) :
                  SeverityRank(anomalies[i].severity) <= SeverityRank(severity)
            /\ ContributingTo(r) # {} =>
                  \E i \in ContributingTo(r) : anomalies[i].severity = severity
            /\ ContributingTo(r) = {} => severity = "low"

Wit_C9 ==
    /\ pc = "done"
    /\ severity = "medium"
    /\ root_cause = "Parameter Mismatch"
    /\ \E i \in 1..Len(anomalies) :
          anomalies[i].kpi = "Cell_Availability" /\ anomalies[i].severity = "high"

\* C10 as stated: the severity computation is defined for every KPI of the table
\* and every mean: no violated KPI has a zero divisor and no run raises.
Cex_C10 ==
    /\ pc # "failed"
    /\ pc = "done" => ~ZeroDivisor(evidence)

\* ---------------------------------------------------------------- C11
\* C11: on the first run for a site with no stored Baseline the Drift Comparator
\* returns drift_score = 0 and the store then holds a Baseline equal to the run's
\* per-KPI aggregates.
RunStepOn(s) == lastOp'.kind = "run" /\ lastOp'.site = s

Thm_C11 ==
    [][\A s \in Sites :
         (store[s] = NoBaseline /\ RunStepOn(s)) =>
            /\ response'.status = "ok"
            /\ "drift" \in response'.parts
            /\ response'.drift.drift_score = 0
            /\ store'[s] = Stored(s, lastOp'.data)]_vars

Wit_C11 ==
    /\ lastOp.kind = "run"
    /\ "drift" \in response.parts
    /\ response.drift = FirstRunDrift
    /\ store[lastOp.site] = Stored(lastOp.site, lastOp.data)

\* ---------------------------------------------------------------- C12
\* C12: a site's stored Baseline changes only at an explicit refresh of that site
\* or at its automatic creation when the site had none; a run against an existing
\* Baseline leaves the whole store unchanged.
Thm_C12 ==
    [][/\ \A s \in Sites :
            store'[s] # store[s] =>
               \/ lastOp'.kind = "refresh" /\ lastOp'.site = s
               \/ RunStepOn(s) /\ store[s] = NoBaseline
       /\ \A s \in Sites :
            (RunStepOn(s) /\ store[s].state = "stored") => store' = store]_vars

Wit_C12 ==
    /\ lastOp.kind = "run"
    /\ "drift" \in response.parts
    /\ DOMAIN response.drift.drift_details # {}
    /\ store[lastOp.site].state = "stored"
    /\ store[lastOp.site].stats # lastOp.data

\* ---------------------------------------------------------------- C16
\* C16: with a stored Baseline that does not deserialize, a run still succeeds and
\* returns the root cause, the outlier result and the samples; only the drift part
\* is missing.
Thm_C16 ==
    (lastOp.kind = "run" /\ store[lastOp.site] = Corrupt) =>
        /\ response.status = "ok"
        /\ CoreParts \subseteq response.parts
        /\ "drift" \notin response.parts

Wit_C16 ==
    /\ lastOp.kind = "run"
    /\ store[lastOp.site] = Corrupt
    /\ response = CorruptResponse

\* ---------------------------------------------------------------- C14
\* C14: a refresh of a site's Baseline followed by a run on the same site with the
\* same data returns drift_score = 0 and no parameters of interest.
Cex_C14 ==
    [][(/\ lastOp.kind = "refresh"
        /\ RunStepOn(lastOp.site)
        /\ lastOp'.data = lastOp.data) =>
            /\ response'.status = "ok"
            /\ "drift" \in response'.parts
            /\ response'.drift.drift_score = 0
            /\ response'.drift.parameters_of_interest = {}]_vars

\* ---------------------------------------------------------------- C15
\* C15: every comparison of a run's aggregates with a stored Baseline returns a
\* drift_score in [0,1] and, as parameters_of_interest, exactly the KPIs whose
\* normalized deviation is above the significance cutoff.
AboveCutoff(d) == d.kind # "nan" /\ (d.kind = "num" => d.val >= SignificanceCutoff + 1)

Cex_C15 ==
    (lastOp.kind = "run" /\ store[lastOp.site].state = "stored") =>
        /\ response.status = "ok"
        /\ "drift" \in response.parts
        /\ response.drift.drift_score \in 0..ScoreOne
        /\ response.drift.parameters_of_interest =
             {k \in DOMAIN response.drift.drift_details :
                 AboveCutoff(response.drift.drift_details[k])}

\* ---------------------------------------------------------------- C13
\* C13: a comparison and a refresh of the same site never overlap, the entries a
\* comparison has read all belong to one Baseline (the one before or the one after
\* a refresh, never some of each), and a worker can start on a site whenever that
\* site's own lock is free, whatever is running on the other sites.
Comparing(w) == work[w].pc \in {"working", "done"} /\ work[w].kind = "compare"

Thm_C17 ==
    ingest # NoIngest =>
        /\ document.schema \notin KnownSchemas =>
              /\ ingest.status = "ParseError"
              /\ DOMAIN ingest \cap {"samples", "statistics", "evidence", "anomalies",
                                     "root_cause", "severity"} = {}
        /\ (document.schema \in KnownSchemas /\ Normalize(document) = << >>) =>
              /\ ingest.status = "ok"
              /\ ingest.evidence = NoEvidence
              /\ ingest.anomalies = << >>
              /\ ingest.root_cause = NoAnomalyLabel

Wit_C17 ==
    /\ document.schema \in KnownSchemas
    /\ \A b \in Buckets : DOMAIN document.buckets[b] = {}
    /\ ingest.status = "ok"
    /\ ingest.samples = << >>
    /\ ingest.root_cause = NoAnomalyLabel

\* ---------------------------------------------------------------- C18
\* C18: a derived rate is emitted for a bucket only when the bucket has both the
\* attempt and the success counter; when either is missing the bucket's only
\* Samples of the rate KPI are those of a counter that reports the rate itself.
SamplesAt(samples, b, name) ==
    {i \in 1..Len(samples) : samples[i].timestamp = b /\ samples[i].kpi_name = name}

Thm_C18 ==
    ingest.status = "ok" =>
        \A b \in Buckets : \A i \in 1..Len(DerivedRates) :
            LET r == DerivedRates[i]
                both == /\ Present(document.buckets[b], r.attempts)
                        /\ Present(document.buckets[b], r.success)
                reported == {c \in DOMAIN document.buckets[b] : CanonicalName(c) = r.rate}
            IN  /\ SamplesAt(ingest.derived, b, r.rate) # {} => both
                /\ ~both =>
                      /\ SamplesAt(ingest.derived, b, r.rate) = {}
                      /\ Cardinality(SamplesAt(ingest.samples, b, r.rate)) = Cardinality(reported)
                      /\ \A j \in SamplesAt(ingest.samples, b, r.rate) :
                            \E c \in reported : ingest.samples[j].value = document.buckets[b][c]

Wit_C18 ==
    /\ ingest.status = "ok"
    /\ "pmRrcConnEstabSucc" \notin DOMAIN document.buckets[1]
    /\ "pmRrcConnEstabAtt" \in DOMAIN document.buckets[1]
    /\ SamplesAt(ingest.samples, 1, "RRC_Setup_Success_Rate") = {}
    /\ DOMAIN document.buckets[2] = {"pmRrcConnEstabAtt", "pmRrcConnEstabSucc"}
    /\ SamplesAt(ingest.derived, 2, "RRC_Setup_Success_Rate") # {}

\* ---------------------------------------------------------------- C20
\* C20 as stated: the statistics of a KPI with exactly one sample have mean, min,
\* max and median equal to the sample's value and no stdev.
SingleValue(name) == ValuesOf(ingest.samples, name)[1]

Cex_C19 ==
    (lastOp.kind = "run" /\ "drift" \in response.parts) =>
        response.drift.parameters_of_interest \cup DOMAIN response.drift.drift_details
            \subseteq CanonicalKpiNames

NameAllowed(name) ==
    \/ EndsWith(ToLowerCase(name), <<".", "x", "m", "l", ".", "g", "z">>)
    \/ EndsWith(ToLowerCase(name), <<".", "g", "z">>)
    \/ EndsWith(ToLowerCase(name), <<".", "z", "i", "p">>)
    \/ EndsWith(ToLowerCase(name), <<".", "x", "m", "l">>)

\* C26: on the upload page the selected file is non-null only if its lower-cased
\* name ends with .xml.gz, .gz, .zip or .xml, and so is the file of every /upload
\* and /analyze request; handleFileChange with any other name sets file to null
\* and sets an error; handleUpload and handleAnalyze with file = null send no
\* request.
Thm_C26 ==
    /\ [](/\ uploadPage.file # JNull => NameAllowed(uploadPage.file.name)
          /\ \A r \in network.pending :
               r.endpoint \in {"/upload", "/analyze"} =>
                 r.payload # JNull /\ NameAllowed(r.payload.name)
          /\ AnalyzePosted(network, network.started, JNull, TRUE) = network)
    /\ [][/\ \A name \in FileNames :
               HandleFileChange(name) /\ ~NameAllowed(name) =>
                 uploadPage'.file = JNull /\ uploadPage'.error # Null
          /\ HandleUploadNoFile => network' = network /\ uploadPage'.error # Null]_vars

\* A rejected file name has cleared the selection and set the error.
Wit_C26 ==
    /\ route.page = "/upload"
    /\ uploadPage.file = JNull
    /\ uploadPage.error = "Please select a .xml.gz, .gz, .zip, or .xml file"

\* The requests to an endpoint among a set of requests.
RequestsTo(endpoint, pending) == {r \in pending : r.endpoint = endpoint}

\* Request q was issued before: it is among the pending ones, mounted or not.
Issued(q, pending) ==
    \E p \in pending : p.attempt = q.attempt /\ p.endpoint = q.endpoint /\ p.payload = q.payload

\* C27: an /analyze request is issued only by the step in which the /upload
\* request of the same attempt and file succeeds, so the server holds the file
\* of every pending /analyze request; when /upload fails no /analyze request is
\* issued, uploading returns to false, an error message is set and success is
\* false.
Thm_C27 ==
    /\ [](\A q \in RequestsTo("/analyze", network.pending) : q.payload \in network.uploaded)
    /\ [][/\ \A q \in RequestsTo("/analyze", network'.pending) :
               Issued(q, network.pending) \/
               \E r \in RequestsTo("/upload", network.pending \ network'.pending) :
                  /\ r.attempt = q.attempt /\ r.payload = q.payload
                  /\ UploadSucceeds(r)
          /\ \A r \in RequestsTo("/upload", network.pending) : \A kind \in UploadFailures :
               UploadFails(r, kind) =>
                 /\ \A q \in RequestsTo("/analyze", network'.pending) : Issued(q, network.pending)
                 /\ r.payload \notin network.uploaded => r.payload \notin network'.uploaded
                 /\ r.live => /\ ~uploadPage'.uploading
                              /\ uploadPage'.error # Null
                              /\ ~uploadPage'.success]_vars

\* The /upload of the selected file has succeeded and its /analyze is pending.
Wit_C27 ==
    /\ uploadPage.success /\ uploadPage.analyzing /\ ~uploadPage.uploading
    /\ \E q \in RequestsTo("/analyze", network.pending) :
         q.live /\ q.payload = uploadPage.file /\ q.payload \in network.uploaded

\* C28: sessionStorage changes, and /dashboard is pushed, only in the step in
\* which an /analyze request succeeds; an item that changes then holds the
\* response body (rcaResults) or its kpi_data field (kpiData), as JSON text. When
\* /analyze fails, sessionStorage and the route are unchanged, analyzing returns
\* to false and an error is set.
Thm_C28 ==
    [][/\ (sessionStorage' # sessionStorage
            \/ (route'.push = "/dashboard" /\ route.push # "/dashboard")) =>
             \E r \in RequestsTo("/analyze", network.pending) : \E body \in AnalyzeBodies :
                /\ \E written \in 0..2 : AnalyzeSucceeds(r, body, written)
                /\ route'.push = "/dashboard"
                /\ sessionStorage'["rcaResults"] \in {sessionStorage["rcaResults"], Json(body)}
                /\ \/ sessionStorage'["kpiData"] = sessionStorage["kpiData"]
                   \/ /\ body # JNull
                      /\ sessionStorage'["rcaResults"] = Json(body)
                      /\ sessionStorage'["kpiData"] =
                           IF body.kpi_data = Undefined THEN Unparsable ELSE Json(body.kpi_data)
       /\ \A r \in RequestsTo("/analyze", network.pending) :
            AnalyzeFails(r) =>
              /\ sessionStorage' = sessionStorage
              /\ route' = route
              /\ r.live => ~uploadPage'.analyzing /\ uploadPage'.error # Null]_vars

\* /analyze has failed in a session that holds an earlier analysis: the earlier
\* results are still stored.
Wit_C28 ==
    /\ route = [page |-> "/upload", push |-> Null]
    /\ uploadPage.error = "Analysis failed" /\ ~uploadPage.analyzing
    /\ sessionStorage = PreviousResults

\* The question has a character that is not whitespace.
NonBlank(q) == \E i \in 1..Len(q) : q[i] \notin Whitespace

\* C29: an /ask-ai request is issued only when the question is non-blank after
\* trimming and hasData is true, and the step that issues it clears answer,
\* confidence and error; when the request settles loading is false, with the
\* answer set after a success, and the error set and the answer null after a
\* failure.
Thm_C29 ==
    [][/\ \A q \in RequestsTo("/ask-ai", network'.pending) :
            Issued(q, network.pending) \/
            /\ NonBlank(askPage.question) /\ askPage.hasData
            /\ q.payload.question = askPage.question
            /\ askPage'.loading
            /\ askPage'.answer = Null /\ askPage'.confidence = Null /\ askPage'.error = Null
       /\ \A r \in RequestsTo("/ask-ai", network.pending) :
            /\ \A body \in AskBodies :
                 AskSucceeds(r, body) /\ r.live =>
                   ~askPage'.loading /\ askPage'.answer = body.answer
            /\ AskFails(r) /\ r.live =>
                 ~askPage'.loading /\ askPage'.error # Null /\ askPage'.answer = Null
       /\ HandleSubmitThrows =>
            /\ network' = network
            /\ ~askPage'.loading /\ askPage'.error # Null /\ askPage'.answer = Null]_vars

\* A question padded with whitespace has been answered.
Wit_C29 ==
    /\ route.page = "/ask-ai"
    /\ askPage.question = <<" ", "w", "h", "y", "\n">>
    /\ askPage.answer = "answer" /\ ~askPage.loading /\ askPage.error = Null

\* C30: while the RCA page is shown, if sessionStorage has no usable rcaResults
\* item (none, or one that JSON.parse rejects) the router has been asked for
\* /upload and the page stays in its loading state; the analysis is rendered only
\* with the parsed item as rcaResults and loading false.
Thm_C30 ==
    route.page = "/rca" =>
      /\ sessionStorage["rcaResults"].kind # "json" =>
           /\ route.push = "/upload"
           /\ rcaPage.loading /\ rcaPage.rcaResults = JNull
           /\ RcaView(rcaPage) = "Loading RCA analysis..."
      /\ RcaView(rcaPage) = "results" =>
           /\ sessionStorage["rcaResults"].kind = "json"
           /\ rcaPage.rcaResults = sessionStorage["rcaResults"].value
           /\ ~rcaPage.loading
           /\ route.push = Null

\* The RCA page was opened on an item that JSON.parse rejects.
Wit_C30 ==
    /\ route = [page |-> "/rca", push |-> "/upload"]
    /\ sessionStorage["rcaResults"] = Unparsable
    /\ rcaPage.loading

\* The item is missing (no entry, or an empty one) or is not JSON text.
Unusable(item) == item.kind \in {"absent", "empty", "unparsable"}

\* C24: while the dashboard is shown, if rcaResults or kpiData is missing or
\* unparsable in sessionStorage, or kpiData is an empty array, the page shows the
\* "No Data Available" card and no charts; the dashboard never asks the router
\* for /upload.
Thm_C24 ==
    route.page = "/dashboard" =>
      /\ (\/ Unusable(sessionStorage["rcaResults"])
          \/ Unusable(sessionStorage["kpiData"])
          \/ sessionStorage["kpiData"] = Json(JArray(<< >>)))
           => DashboardView(dashboardPage) = "No Data Available"
      /\ route.push # "/upload"

\* The dashboard was opened on a stored result whose kpiData JSON.parse rejects.
Wit_C24 ==
    /\ route.page = "/dashboard"
    /\ sessionStorage["rcaResults"].kind = "json" /\ dashboardPage.rcaResults # JNull
    /\ sessionStorage["kpiData"] = Unparsable
    /\ DashboardView(dashboardPage) = "No Data Available"

\* A step of handleSubmit or of handleGenerateReport, up to the request or after it.
HandlerStep ==
    \/ HandleSubmitBlank \/ HandleSubmitNoData \/ HandleSubmit \/ HandleSubmitThrows
    \/ HandleGenerateReport
    \/ \E r \in network.pending :
         \/ \E body \in AskBodies : AskSucceeds(r, body)
         \/ AskFails(r)
         \/ ReportSucceeds(r)
         \/ ReportFails(r)

\* C23: no step of handleSubmit (Ask-AI page) or of handleGenerateReport (RCA
\* page), successful or failed, changes the sessionStorage items rcaResults and
\* kpiData or the rcaResults state of a page.
Thm_C23 ==
    [][HandlerStep =>
         /\ sessionStorage' = sessionStorage
         /\ rcaPage'.rcaResults = rcaPage.rcaResults
         /\ dashboardPage'.rcaResults = dashboardPage.rcaResults]_vars

\* A report has failed on the RCA page while a question asked before is still
\* unanswered: the analysis is stored and shown as before.
Wit_C23 ==
    /\ route.page = "/rca"
    /\ rcaPage.reportError = "Failed to generate incident report"
    /\ RequestsTo("/ask-ai", network.pending) # {}
    /\ rcaPage.rcaResults # JNull
    /\ sessionStorage["rcaResults"] = Json(rcaPage.rcaResults)

\* The anomaly_detection object shown on the RCA page.
Shown == rcaPage.rcaResults.anomaly_detection

HasAnomalyPeriods ==
    /\ route.page = "/rca" /\ RcaView(rcaPage) = "results"
    /\ "anomaly_detection" \in DOMAIN rcaPage.rcaResults
    /\ "anomaly_periods" \in DOMAIN Shown

\* The first min(10, n) of the n periods, in order.
FirstTen(periods) ==
    [i \in 1..(IF Len(periods) < 10 THEN Len(periods) ELSE 10) |-> periods[i]]

\* C25 as stated: the RCA page renders the first min(10, n) entries of
\* anomaly_periods in order, "+k more" with k = n - 10 exactly when n > 10, and
\* the anomaly_count as it is.
Cex_C25 ==
    HasAnomalyPeriods =>
      LET card == AnomalyCard(rcaPage.rcaResults)
          n == Len(Shown.anomaly_periods)
      IN  /\ card.periods = FirstTen(Shown.anomaly_periods)
          /\ card.more = IF n > 10 THEN <<n - 10>> ELSE << >>
          /\ "anomaly_count" \in DOMAIN Shown => card.count = <<Shown.anomaly_count>>

\* C25, amended: when the result's anomaly_detection has an anomaly_count, the RCA
\* page renders that count as it is, the first min(10, n) entries of
\* anomaly_periods in order and "+k more" with k = n - 10 exactly when n > 10;
\* without an anomaly_count it renders neither the count nor any period.
Thm_C25 ==
    HasAnomalyPeriods =>
      LET card == AnomalyCard(rcaPage.rcaResults)
          n == Len(Shown.anomaly_periods)
      IN  IF "anomaly_count" \in DOMAIN Shown
            THEN /\ card.count = <<Shown.anomaly_count>>
                 /\ card.periods = FirstTen(Shown.anomaly_periods)
                 /\ card.more = IF n > 10 THEN <<n - 10>> ELSE << >>
            ELSE card.count = << >> /\ card.periods = << >> /\ card.more = << >>

\* A result with eleven periods and a count of twelve is shown: ten periods are
\* listed, with "+1 more".
Wit_C25 ==
    /\ HasAnomalyPeriods
    /\ "anomaly_count" \in DOMAIN Shown /\ Shown.anomaly_count = 12
    /\ Len(Shown.anomaly_periods) = 11
    /\ AnomalyCard(rcaPage.rcaResults).periods = <<1, 2, 3, 4, 5, 6, 7, 8, 9, 10>>
    /\ AnomalyCard(rcaPage.rcaResults).more = <<1>>
    /\ AnomalyCard(rcaPage.rcaResults).count = <<12>>

\* The same measurements expressed in another schema.
InSchema(doc, schema) == [doc EXCEPT !.schema = schema]

====
